---- MODULE Spec2Model ----
(***************************************************************************)
(* A model of the gomoku game of src/game.js: the match state (gameState), *)
(* the operations the page runs on it (startGame, init, placePiece, undo,  *)
(* aiMove and its timer callback) and the move selection of the computer   *)
(* player (getAIMove and what it calls).                                   *)
(*                                                                         *)
(* gameState is one record, as in the source.  A function of the source    *)
(* that writes gameState is an operator from a gameState record to a       *)
(* record [gs |-> the gameState it leaves, ret |-> what it returns]: every *)
(* assignment of the source is an EXCEPT of the model, in the source's     *)
(* order, so that a stone the source would leave on the board is left on   *)
(* the board of the model.                                                 *)
(*                                                                         *)
(* Arithmetic.  The source multiplies scores by 1.2, 1.8, 0.8, ...; the    *)
(* model keeps every such score multiplied by 10 (the operators named      *)
(* ...10), in exact integers.                                              *)
(***************************************************************************)
EXTENDS Integers, Sequences, FiniteSets, TLC

VARIABLES
  gameState,    \* the source's gameState object
  pendingInit,  \* timers set by init(), not yet fired (each calls aiMove())
  pendingAi,    \* timers set by aiMove(), not yet fired (each runs the AI callback)
  call,         \* the operation that produced this state, with its arguments and result
  before        \* gameState when the click, undo or AI callback that produced this state began

vars == <<gameState, pendingInit, pendingAi, call, before>>

\* ------------------------------------------------------------ constants

BOARD_SIZE == 15
FIVE == 1000000
OPEN_FOUR == 100000
LIVE_FOUR == 100000
SIMPLE_FOUR == 10000
RUSH_FOUR == 10000
BROKEN_THREE == 1000
OPEN_THREE == 800
LIVE_THREE == 800
SIMPLE_THREE == 100
SLEEP_THREE == 100
OPEN_TWO == 50
SIMPLE_TWO == 10
OPEN_ONE == 5

\* ------------------------------------------------------------ bounds

\* no stone is placed once history holds MaxMoves moves
MaxMoves == 2
\* no timer is set while MaxTimers timers of its kind are pending
MaxTimers == 1
\* where the search's values are not computed, its result is drawn from the
\* first MaxPick root candidates
MaxPick == 2
\* the search of tiers Hard and Hell is run on boards with at most MaxExact empty cells
MaxExact == 3

\* ------------------------------------------------------------ the board

Coords == 0 .. (BOARD_SIZE - 1)
Cells == Coords \X Coords
InBoard(x, y) == x >= 0 /\ x < BOARD_SIZE /\ y >= 0 /\ y < BOARD_SIZE
EmptyBoard == [c \in Cells |-> 0]
Other(player) == IF player = 1 THEN 2 ELSE 1
null == [x |-> -1, y |-> -1]
Move(x, y) == [x |-> x, y |-> y]
\* the four axes of the source's `directions` arrays, in their order
directions == << <<1, 0>>, <<0, 1>>, <<1, 1>>, <<1, -1>> >>
\* the cells in the order of the source's double loops: i (x) outer, j (y) inner
ScanOrder == [k \in 1 .. (BOARD_SIZE * BOARD_SIZE) |->
                <<(k - 1) \div BOARD_SIZE, (k - 1) % BOARD_SIZE>>] \o <<>>
Abs(n) == IF n < 0 THEN -n ELSE n
Max(a, b) == IF a >= b THEN a ELSE b
Min(a, b) == IF a <= b THEN a ELSE b
\* the array f with every element computed, once
array(f) == f \o <<>>

hasNeighbor(board, x, y, distance) ==
  \E i \in (-distance) .. distance : \E j \in (-distance) .. distance :
     /\ ~(i = 0 /\ j = 0)
     /\ InBoard(x + i, y + j)
     /\ board[<<x + i, y + j>>] # 0

\* ------------------------------------------------------------ win detection

\* the number of stones of player met walking from (x,y) by steps of
\* (dx,dy), i = 1 .. 4, stopping at the first cell that is not one
RECURSIVE runFrom(_, _, _, _, _, _, _)
runFrom(board, x, y, dx, dy, player, i) ==
  IF i < 5 /\ InBoard(x + dx * i, y + dy * i) /\ board[<<x + dx * i, y + dy * i>>] = player
  THEN 1 + runFrom(board, x, y, dx, dy, player, i + 1)
  ELSE 0

\* the `line` array checkWin builds along one axis
lineOf(board, x, y, d, player) ==
  LET f == runFrom(board, x, y, d[1], d[2], player, 1)
      b == runFrom(board, x, y, -d[1], -d[2], player, 1)
  IN [k \in 1 .. (b + 1 + f) |-> <<x + d[1] * (k - 1 - b), y + d[2] * (k - 1 - b)>>]

\* checkWin had it asked for a line of exactly five
checkWinExactFive(gs, x, y, player) ==
  LET wins == {k \in 1 .. 4 : Len(lineOf(gs.board, x, y, directions[k], player)) = 5}
  IN IF wins = {} THEN [gs |-> gs, ret |-> FALSE]
     ELSE LET k == CHOOSE m \in wins : \A n \in wins : m <= n
          IN [gs |-> [gs EXCEPT !.winningLine = lineOf(gs.board, x, y, directions[k], player)],
              ret |-> TRUE]

\* checkWin: ret, and the gameState left (winningLine is written on a win)
checkWin(gs, x, y, player) ==
  LET wins == {k \in 1 .. 4 : Len(lineOf(gs.board, x, y, directions[k], player)) >= 5}
  IN IF wins = {} THEN [gs |-> gs, ret |-> FALSE]
     ELSE LET k == CHOOSE m \in wins : \A n \in wins : m <= n
          IN [gs |-> [gs EXCEPT !.winningLine = lineOf(gs.board, x, y, directions[k], player)],
              ret |-> TRUE]

\* checkWinWithoutState had its loops run for i < 4
checkWinWithoutStateShort(board, x, y, player) ==
  \E k \in 1 .. 4 :
     1 + Min(3, runFrom(board, x, y, directions[k][1], directions[k][2], player, 1))
       + Min(3, runFrom(board, x, y, -directions[k][1], -directions[k][2], player, 1)) >= 5

checkWinWithoutState(board, x, y, player) ==
  \E k \in 1 .. 4 :
     1 + runFrom(board, x, y, directions[k][1], directions[k][2], player, 1)
       + runFrom(board, x, y, -directions[k][1], -directions[k][2], player, 1) >= 5

\* ------------------------------------------------------------ patterns

\* a match of sub looked for at the start of s only
startsWith(s, sub) == Len(sub) <= Len(s) /\ \A k \in 1 .. Len(sub) : s[k] = sub[k]

\* pattern.includes(sub) / regex.test(pattern) for a regex that is one literal
includes(s, sub) ==
  \E i \in 1 .. (Len(s) - Len(sub) + 1) : \A k \in 1 .. Len(sub) : s[i + k - 1] = sub[k]
\* regex.test(pattern) for a regex that is an alternation of literals
test(alternatives, s) == \E sub \in alternatives : includes(s, sub)

classifyPattern(pattern, center) ==
  IF pattern[center + 1] # "_" THEN 0
  ELSE LET newPattern == [pattern EXCEPT ![center + 1] = "O"] IN
    IF includes(newPattern, <<"O","O","O","O","O">>) THEN FIVE
    ELSE IF \/ test({<<"_","O","O","O","O","_">>}, newPattern)
            \/ test({<<"_","O","O","O","O","X">>}, newPattern)
            \/ test({<<"X","O","O","O","O","_">>}, newPattern) THEN OPEN_FOUR
    ELSE IF test({<<"X","O","O","O","O","_">>, <<"_","O","O","O","O","X">>,
                  <<"O","O","O","_","O">>, <<"O","O","_","O","O">>,
                  <<"O","_","O","O","O">>}, newPattern) THEN SIMPLE_FOUR
    ELSE IF test({<<"_","O","O","_","O","_">>, <<"_","O","_","O","O","_">>}, newPattern)
         THEN BROKEN_THREE
    ELSE IF test({<<"_","O","O","O","_">>}, newPattern) THEN OPEN_THREE
    ELSE IF test({<<"X","O","O","O","_">>, <<"_","O","O","O","X">>,
                  <<"O","O","_","O">>, <<"O","_","O","O">>}, newPattern) THEN SIMPLE_THREE
    ELSE IF test({<<"_","O","O","_">>}, newPattern) THEN OPEN_TWO
    ELSE IF test({<<"X","O","O","_">>, <<"_","O","O","X">>, <<"O","_","O">>}, newPattern)
         THEN SIMPLE_TWO
    ELSE IF test({<<"_","O","_">>}, newPattern) THEN OPEN_ONE
    ELSE 0

\* one character had the cells off the board been taken for empty
patternCharOpenEdge(board, nx, ny, player) ==
  IF ~InBoard(nx, ny) THEN "_"
  ELSE IF board[<<nx, ny>>] = player THEN "O"
  ELSE IF board[<<nx, ny>>] = Other(player) THEN "X"
  ELSE "_"

\* one character of the pattern string of analyzeLinePattern
patternChar(board, nx, ny, player) ==
  IF ~InBoard(nx, ny) THEN "X"
  ELSE IF board[<<nx, ny>>] = player THEN "O"
  ELSE IF board[<<nx, ny>>] = Other(player) THEN "X"
  ELSE "_"

\* the 9-character pattern string of analyzeLinePattern
windowOf(board, x, y, dx, dy, player) ==
  array([k \in 1 .. 9 |-> patternChar(board, x + dx * (k - 5), y + dy * (k - 5), player)])

analyzeLinePattern(board, x, y, dx, dy, player) ==
  classifyPattern(windowOf(board, x, y, dx, dy, player), 4)

evaluateLine(board, x, y, dx, dy, player) == analyzeLinePattern(board, x, y, dx, dy, player)

\* the score of evaluatePointAdvanced had it no addition for two simple fours
evaluatePointTotalLessTwoFours(s) ==
  s[1] + s[2] + s[3] + s[4]
  + (IF Cardinality({k \in 1 .. 4 : s[k] >= OPEN_FOUR}) >= 1 THEN FIVE \div 2 ELSE 0)
  + (IF /\ Cardinality({k \in 1 .. 4 : s[k] < OPEN_FOUR /\ s[k] >= SIMPLE_FOUR}) >= 1
        /\ Cardinality({k \in 1 .. 4 : s[k] < SIMPLE_FOUR /\ s[k] >= OPEN_THREE}) >= 1
       THEN (OPEN_FOUR * 7) \div 10 ELSE 0)
  + (IF Cardinality({k \in 1 .. 4 : s[k] < SIMPLE_FOUR /\ s[k] >= OPEN_THREE}) >= 2
       THEN (SIMPLE_FOUR * 9) \div 10 ELSE 0)

\* the score evaluatePointAdvanced gives to the scores s of the four axes:
\* their sum and the bonuses of the combinations
evaluatePointTotal(s) ==
  s[1] + s[2] + s[3] + s[4]
  + (IF Cardinality({k \in 1 .. 4 : s[k] >= OPEN_FOUR}) >= 1 THEN FIVE \div 2 ELSE 0)
  + (IF Cardinality({k \in 1 .. 4 : s[k] < OPEN_FOUR /\ s[k] >= SIMPLE_FOUR}) >= 2
       THEN (OPEN_FOUR * 8) \div 10 ELSE 0)
  + (IF /\ Cardinality({k \in 1 .. 4 : s[k] < OPEN_FOUR /\ s[k] >= SIMPLE_FOUR}) >= 1
        /\ Cardinality({k \in 1 .. 4 : s[k] < SIMPLE_FOUR /\ s[k] >= OPEN_THREE}) >= 1
       THEN (OPEN_FOUR * 7) \div 10 ELSE 0)
  + (IF Cardinality({k \in 1 .. 4 : s[k] < SIMPLE_FOUR /\ s[k] >= OPEN_THREE}) >= 2
       THEN (SIMPLE_FOUR * 9) \div 10 ELSE 0)

\* THREAT_LEVELS, each entry with the score of SCORES it is compared to
THREAT_LEVELS ==
  <<[score |-> FIVE, level |-> 7], [score |-> OPEN_FOUR, level |-> 6],
    [score |-> SIMPLE_FOUR, level |-> 5], [score |-> BROKEN_THREE, level |-> 4],
    [score |-> OPEN_THREE, level |-> 3], [score |-> SIMPLE_THREE, level |-> 2],
    [score |-> OPEN_TWO, level |-> 1], [score |-> SIMPLE_TWO, level |-> 0]>>

\* maxThreatLevel had the loop compared with score > SCORES[threatType]
maxThreatLevelAbove(s) ==
  LET levels == {0} \cup {THREAT_LEVELS[t].level :
                            t \in {u \in 1 .. Len(THREAT_LEVELS) :
                                      \E k \in 1 .. 4 : s[k] > THREAT_LEVELS[u].score}}
  IN CHOOSE m \in levels : \A n \in levels : n <= m

\* maxThreatLevel of evaluatePointAdvanced after its loop, s the scores of the
\* four axes: the highest level of an entry one of the scores reaches, 0 when
\* none does
maxThreatLevel(s) ==
  LET levels == {0} \cup {THREAT_LEVELS[t].level :
                            t \in {u \in 1 .. Len(THREAT_LEVELS) :
                                      \E k \in 1 .. 4 : s[k] >= THREAT_LEVELS[u].score}}
  IN CHOOSE m \in levels : \A n \in levels : n <= m

\* the scores analyzeLinePattern gives the four axes through (x, y)
axisScores(board, x, y, player) ==
  array([k \in 1 .. 4 |->
           analyzeLinePattern(board, x, y, directions[k][1], directions[k][2], player)])

\* evaluatePointAdvanced(x, y, player): the number 0 on a cell that is not
\* empty, else score and threatLevel
evaluatePointAdvanced(board, x, y, player) ==
  IF board[<<x, y>>] # 0 THEN 0
  ELSE [score |-> evaluatePointTotal(axisScores(board, x, y, player)),
        threatLevel |-> maxThreatLevel(axisScores(board, x, y, player))]

\* evaluatePoint(x, y, player): evaluatePointAdvanced(x, y, player).score, for
\* an empty cell (the number 0 the source returns for an occupied one has no
\* score)
evaluatePoint(board, x, y, player) == evaluatePointTotal(axisScores(board, x, y, player))

\* ------------------------------------------------------------ threat scans

\* the places in ScanOrder of the cells the scans look at: empty, with a stone
\* within distance 2
liveIndex(board) ==
  {k \in 1 .. Len(ScanOrder) :
     board[ScanOrder[k]] = 0 /\ hasNeighbor(board, ScanOrder[k][1], ScanOrder[k][2], 2)}

\* the first cell, in scan order, of the places hits; null when there is none
firstCell(hits) ==
  IF hits = {} THEN null
  ELSE Move(ScanOrder[CHOOSE k \in hits : \A m \in hits : k <= m][1],
            ScanOrder[CHOOSE k \in hits : \A m \in hits : k <= m][2])

findThreat(board, player, minScore) ==
  firstCell({k \in liveIndex(board) :
               evaluatePoint(board, ScanOrder[k][1], ScanOrder[k][2], player) >= minScore})

\* The double loop of findImmediateWin.  findImmediateWinRow is the inner loop
\* of row i from column j on, findImmediateWinFrom the outer loop from row i
\* on, findImmediateWinAt what follows checkWin at one cell (isWin is its
\* result): the cell is cleared and winningLine is reset.
RECURSIVE findImmediateWinRow(_, _, _, _)
RECURSIVE findImmediateWinAt(_, _, _, _)
findImmediateWinRow(gs, player, i, j) ==
  IF j >= BOARD_SIZE THEN [gs |-> gs, ret |-> null]
  ELSE IF gs.board[<<i, j>>] # 0 THEN findImmediateWinRow(gs, player, i, j + 1)
  ELSE IF ~hasNeighbor(gs.board, i, j, 2) THEN findImmediateWinRow(gs, player, i, j + 1)
  ELSE findImmediateWinAt(checkWin([gs EXCEPT !.board[<<i, j>>] = player], i, j, player),
                          player, i, j)

findImmediateWinAt(isWin, player, i, j) ==
  IF isWin.ret
    THEN [gs |-> [isWin.gs EXCEPT !.board[<<i, j>>] = 0, !.winningLine = <<>>],
          ret |-> Move(i, j)]
  ELSE findImmediateWinRow([isWin.gs EXCEPT !.board[<<i, j>>] = 0, !.winningLine = <<>>],
                           player, i, j + 1)

RECURSIVE findImmediateWinFrom(_, _, _)
RECURSIVE findImmediateWinNext(_, _, _)
findImmediateWinFrom(gs, player, i) ==
  IF i >= BOARD_SIZE THEN [gs |-> gs, ret |-> null]
  ELSE findImmediateWinNext(findImmediateWinRow(gs, player, i, 0), player, i)

findImmediateWinNext(row, player, i) ==
  IF row.ret # null THEN row ELSE findImmediateWinFrom(row.gs, player, i + 1)

findImmediateWin(gs, player) == findImmediateWinFrom(gs, player, 0)

\* found: what the scan of hasImmediateWin gives, with the cell it stops at
hasImmediateWinOf(found) == [gs |-> found.gs, ret |-> found.ret # null]

hasImmediateWin(gs, player) == hasImmediateWinOf(findImmediateWinFrom(gs, player, 0))

\* ------------------------------------------------------------ candidates

\* the empty cells, in scan order, with or without a stone near
emptyCells(board) == SelectSeq(ScanOrder, LAMBDA c : board[c] = 0)

\* the empty cells with a stone within distance 2, in scan order
liveCells(board) ==
  SelectSeq(ScanOrder, LAMBDA c : board[c] = 0 /\ hasNeighbor(board, c[1], c[2], 2))

\* candidates.sort((a, b) => b.score - a.score).slice(0, n): the sort is
\* stable, so equal scores keep their scan order
RECURSIVE sortedPrefix(_, _)
sortedPrefix(cands, n) ==
  IF n = 0 \/ Len(cands) = 0 THEN <<>>
  ELSE LET k == CHOOSE i \in 1 .. Len(cands) :
                  /\ \A m \in 1 .. Len(cands) : cands[m].score <= cands[i].score
                  /\ \A m \in 1 .. (i - 1) : cands[m].score < cands[i].score
       IN <<cands[k]>>
          \o sortedPrefix(SubSeq(cands, 1, k - 1) \o SubSeq(cands, k + 1, Len(cands)), n - 1)

\* ------------------------------------------------------------ placing and undoing

canPlayerMove(gs) ==
  IF gs.gameOver THEN FALSE
  ELSE IF gs.isAiThinking THEN FALSE
  ELSE IF gs.gameMode = "pve" /\ gs.currentPlayer # gs.playerColor THEN FALSE
  ELSE TRUE

\* aiStats.nodeCount += n.  The counters aiStats are a field of gs in the
\* specification that follows them; elsewhere they are left out, and counting
\* leaves gs as it is.
counted(gs, n) ==
  IF "aiStats" \in DOMAIN gs THEN [gs EXCEPT !.aiStats.nodeCount = @ + n] ELSE gs

\* aiMove() up to its setTimeout: the callback is the action AiCallback
aiMove(gs) ==
  IF "aiStats" \in DOMAIN gs
    THEN [gs EXCEPT !.isAiThinking = TRUE, !.aiStats.nodeCount = 0]
  ELSE [gs EXCEPT !.isAiThinking = TRUE]

\* placePiece had it not looked at the cell before writing it
placePieceAnywhere(gs, x, y, isAI) ==
  IF gs.gameOver THEN [gs |-> gs, ret |-> FALSE, timers |-> 0]
  ELSE IF ~isAI /\ ~canPlayerMove(gs) THEN [gs |-> gs, ret |-> FALSE, timers |-> 0]
  ELSE [gs |-> [gs EXCEPT !.board[<<x, y>>] = gs.currentPlayer,
                          !.history = Append(@, [x |-> x, y |-> y, player |-> gs.currentPlayer]),
                          !.currentPlayer = IF @ = 1 THEN 2 ELSE 1],
        ret |-> TRUE, timers |-> 0]

\* placePiece had it not looked at gameOver
placePieceWhenOver(gs, x, y, isAI) ==
  IF gs.board[<<x, y>>] # 0 THEN [gs |-> gs, ret |-> FALSE, timers |-> 0]
  ELSE IF ~isAI /\ ~canPlayerMove(gs) THEN [gs |-> gs, ret |-> FALSE, timers |-> 0]
  ELSE [gs |-> [gs EXCEPT !.board[<<x, y>>] = gs.currentPlayer,
                          !.history = Append(@, [x |-> x, y |-> y, player |-> gs.currentPlayer]),
                          !.currentPlayer = IF @ = 1 THEN 2 ELSE 1],
        ret |-> TRUE, timers |-> 0]

\* placePiece: gs, ret, and timers, the number of AI timers it set
placePiece(gs, x, y, isAI) ==
  IF gs.gameOver \/ gs.board[<<x, y>>] # 0 THEN [gs |-> gs, ret |-> FALSE, timers |-> 0]
  ELSE IF ~isAI /\ ~canPlayerMove(gs) THEN [gs |-> gs, ret |-> FALSE, timers |-> 0]
  ELSE
    LET placed == [gs EXCEPT !.board[<<x, y>>] = gs.currentPlayer,
                             !.history = Append(@, [x |-> x, y |-> y, player |-> gs.currentPlayer])]
        won == checkWin(placed, x, y, placed.currentPlayer)
    IN IF won.ret THEN [gs |-> [won.gs EXCEPT !.gameOver = TRUE], ret |-> TRUE, timers |-> 0]
       ELSE IF Len(won.gs.history) = BOARD_SIZE * BOARD_SIZE
         THEN [gs |-> [won.gs EXCEPT !.gameOver = TRUE], ret |-> TRUE, timers |-> 0]
       ELSE
         LET turned == [won.gs EXCEPT !.currentPlayer = IF @ = 1 THEN 2 ELSE 1]
         IN IF turned.gameMode = "pve" /\ turned.currentPlayer # turned.playerColor
               /\ ~turned.gameOver
            THEN [gs |-> aiMove(turned), ret |-> TRUE, timers |-> 1]
            ELSE [gs |-> turned, ret |-> TRUE, timers |-> 0]

\* the loop of undo() had it left the stones on the board
RECURSIVE undoStepsKeepingStones(_, _)
undoStepsKeepingStones(gs, steps) ==
  IF steps > 0 /\ Len(gs.history) > 0
  THEN undoStepsKeepingStones([gs EXCEPT !.history = SubSeq(@, 1, Len(@) - 1),
                                         !.currentPlayer = gs.history[Len(gs.history)].player],
                              steps - 1)
  ELSE gs

\* the loop of undo() had it left the turn as it was
RECURSIVE undoStepsKeepingTurn(_, _)
undoStepsKeepingTurn(gs, steps) ==
  IF steps > 0 /\ Len(gs.history) > 0
  THEN LET last == gs.history[Len(gs.history)]
       IN undoStepsKeepingTurn([gs EXCEPT !.history = SubSeq(@, 1, Len(@) - 1),
                                          !.board[<<last.x, last.y>>] = 0], steps - 1)
  ELSE gs

\* the loop of undo(): pop, clear the cell, hand the turn to the popped move's player
RECURSIVE undoSteps(_, _)
undoSteps(gs, steps) ==
  IF steps > 0 /\ Len(gs.history) > 0
  THEN LET last == gs.history[Len(gs.history)]
       IN undoSteps([gs EXCEPT !.history = SubSeq(@, 1, Len(@) - 1),
                               !.board[<<last.x, last.y>>] = 0,
                               !.currentPlayer = last.player], steps - 1)
  ELSE gs

\* undo() had it taken back one move in both modes
undoOne(gs) ==
  IF Len(gs.history) = 0 \/ gs.gameOver \/ gs.isAiThinking THEN gs
  ELSE [undoSteps(gs, 1) EXCEPT !.winningLine = <<>>]

undo(gs) ==
  IF Len(gs.history) = 0 \/ gs.gameOver \/ gs.isAiThinking THEN gs
  ELSE LET stepsToUndo == IF gs.gameMode = "pve" /\ Len(gs.history) >= 2 THEN 2 ELSE 1
       IN [undoSteps(gs, stepsToUndo) EXCEPT !.winningLine = <<>>]

\* init(): gs, and timers, the number of timers it set (each calls aiMove())
init(gs) ==
  [gs |-> [gs EXCEPT !.board = EmptyBoard, !.history = <<>>, !.currentPlayer = 1,
                     !.gameOver = FALSE, !.winningLine = <<>>, !.isAiThinking = FALSE],
   timers |-> IF gs.gameMode = "pve" /\ gs.playerColor = 2 THEN 1 ELSE 0]

startGame(gs, mode, diff, color) ==
  init([gs EXCEPT !.gameMode = mode, !.difficulty = diff,
                  !.playerColor = IF color = "black" THEN 1 ELSE 2])

getAIPlayer(gs) == IF gs.playerColor = 1 THEN 2 ELSE 1

\* ------------------------------------------------------------ move selection

HARD_SEARCH_DEPTH == 4
HARD_CANDIDATE_LIMIT == 15
HARD_SEARCH_LIMIT == 12
HELL_SEARCH_DEPTH == 6
HELL_CANDIDATE_LIMIT == 18
HELL_SEARCH_LIMIT == 15
HELL_VCF_DEPTH == 8
HELL_VCT_DEPTH == 4
WIN_SCORE == FIVE * 10

\* The steps every tier begins with (getEasyMove 1157-1170, getMediumMove
\* 1204-1217, getHardMove 1253-1266, getHellMove 1717-1731): the AI's five, the
\* opponent's five, the AI's open four, the opponent's open four.  ret is null
\* when none applies.  winBlockFour3 is steps 3 and 4 (myLiveFour: the result
\* of step 3), winBlockFour2 steps 2 to 4 (winMove: the result of step 1).
winBlockFour4(gs, myLiveFour) ==
  IF myLiveFour # null THEN [gs |-> gs, ret |-> myLiveFour]
  ELSE [gs |-> gs, ret |-> findThreat(gs.board, gs.playerColor, LIVE_FOUR)]

\* steps 3 and 4 had the opponent's five (blockMove) not been returned
winBlockFourFromStep3(blockMove, aiPlayer) ==
  winBlockFour4(blockMove.gs, findThreat(blockMove.gs.board, aiPlayer, LIVE_FOUR))

winBlockFour3(blockMove, aiPlayer) ==
  IF blockMove.ret # null THEN blockMove
  ELSE winBlockFour4(blockMove.gs, findThreat(blockMove.gs.board, aiPlayer, LIVE_FOUR))

\* steps 2 to 4 had the AI's five (winMove) not been returned
winBlockFourFromStep2(winMove, aiPlayer) ==
  winBlockFour3(findImmediateWin(winMove.gs, winMove.gs.playerColor), aiPlayer)

winBlockFour2(winMove, aiPlayer) ==
  IF winMove.ret # null THEN winMove
  ELSE winBlockFour3(findImmediateWin(winMove.gs, winMove.gs.playerColor), aiPlayer)

winBlockFour(gs, aiPlayer) == winBlockFour2(findImmediateWin(gs, aiPlayer), aiPlayer)

\* the candidates of getEasyMove (attack10 = defense10 = 10) and getMediumMove
\* (attack10 = 12, defense10 = 10), in scan order: score is
\* attack * attack10 / 10 + defense * defense10 / 10, times 10
scoredCells(board, live, aiPlayer, opponent, attack10, defense10) ==
  array([k \in 1 .. Len(live) |->
           [x |-> live[k][1], y |-> live[k][2],
            score |-> evaluatePoint(board, live[k][1], live[k][2], aiPlayer) * attack10
                      + evaluatePoint(board, live[k][1], live[k][2], opponent) * defense10]])

\* getEasyMove's choice among the sorted candidates.  oracle.best:
\* Math.random() < 0.8; oracle.idx: Math.floor(Math.random() * topN)
getEasyMovePickLast(sorted, oracle) == Move(sorted[Len(sorted)].x, sorted[Len(sorted)].y)

getEasyMovePick(sorted, oracle) ==
  IF oracle.best THEN Move(sorted[1].x, sorted[1].y)
  ELSE Move(sorted[(oracle.idx % Min(3, Len(sorted))) + 1].x,
            sorted[(oracle.idx % Min(3, Len(sorted))) + 1].y)

\* getEasyMove from its loop on: first is what the first four steps gave
getEasyMoveRest(first, candidates, oracle) ==
  IF first.ret # null THEN first
  ELSE IF Len(candidates) = 0 THEN [gs |-> first.gs, ret |-> Move(7, 7)]
  ELSE [gs |-> counted(first.gs, Len(candidates)),
        ret |-> getEasyMovePick(sortedPrefix(candidates, 3), oracle)]

getEasyMoveFrom(first, aiPlayer, oracle) ==
  getEasyMoveRest(first,
                  IF first.ret # null THEN <<>>
                  ELSE scoredCells(first.gs.board, liveCells(first.gs.board), aiPlayer,
                                   first.gs.playerColor, 10, 10),
                  oracle)

getEasyMove(gs, aiPlayer, oracle) == getEasyMoveFrom(winBlockFour(gs, aiPlayer), aiPlayer, oracle)

\* getMediumMove had it returned its fallback whatever the candidates
getMediumMoveCentre(sorted) == Move(7, 7)

\* getMediumMove from its loop on: the first candidate of the highest score
getMediumMoveBest(sorted) == Move(sorted[1].x, sorted[1].y)

\* getMediumMove had it given up once nodes have been counted
getMediumMoveWithinBudget(first, candidates) ==
  IF first.ret # null THEN first
  ELSE IF \/ Len(candidates) = 0
          \/ ("aiStats" \in DOMAIN first.gs /\ first.gs.aiStats.nodeCount > 0)
    THEN [gs |-> first.gs, ret |-> Move(7, 7)]
  ELSE [gs |-> counted(first.gs, Len(candidates)),
        ret |-> getMediumMoveBest(sortedPrefix(candidates, 1))]

\* getMediumMove from its loop on, each candidate counted as a node
getMediumMoveRest(first, candidates) ==
  IF first.ret # null THEN first
  ELSE IF Len(candidates) = 0 THEN [gs |-> first.gs, ret |-> Move(7, 7)]
  ELSE [gs |-> counted(first.gs, Len(candidates)),
        ret |-> getMediumMoveBest(sortedPrefix(candidates, 1))]

getMediumMoveFrom(first, aiPlayer) ==
  getMediumMoveRest(first,
                    IF first.ret # null THEN <<>>
                    ELSE scoredCells(first.gs.board, liveCells(first.gs.board), aiPlayer,
                                     first.gs.playerColor, 12, 10))

getMediumMove(gs, aiPlayer) == getMediumMoveFrom(winBlockFour(gs, aiPlayer), aiPlayer)

\* the scores of the four axes at one cell, as the compound scans take them
lineScores(board, i, j, player) ==
  array([k \in 1 .. 4 |->
           evaluateLine(board, i, j, directions[k][1], directions[k][2], player)])

\* rushFourCount / liveThreeCount of the compound scans, from the scores ls of
\* the four axes
rushFourCount(ls) == Cardinality({k \in 1 .. 4 : ls[k] >= RUSH_FOUR})
liveThreeElse(ls) == Cardinality({k \in 1 .. 4 : ls[k] < RUSH_FOUR /\ ls[k] >= LIVE_THREE})
liveThreeCount(ls) == Cardinality({k \in 1 .. 4 : ls[k] >= LIVE_THREE})

\* whether the compound scan named scan stops at a cell whose axes score ls
compound(scan, ls) ==
  CASE scan = "findDoubleRushFour" -> rushFourCount(ls) >= 2
    [] scan = "findFourThreeCombo" -> rushFourCount(ls) >= 1 /\ liveThreeElse(ls) >= 1
    [] scan = "findDoubleThree" -> liveThreeCount(ls) >= 2

\* findDoubleRushFour, findFourThreeCombo, findDoubleThree: the scan named scan
findCompound(scan, board, player) ==
  firstCell({k \in liveIndex(board) :
               compound(scan, lineScores(board, ScanOrder[k][1], ScanOrder[k][2], player))})

findDoubleRushFour(board, player) == findCompound("findDoubleRushFour", board, player)
findFourThreeCombo(board, player) == findCompound("findFourThreeCombo", board, player)
findDoubleThree(board, player) == findCompound("findDoubleThree", board, player)

\* one candidate of getCandidatesImproved, score times 10
candidate(x, y, attack, defense) ==
  [x |-> x, y |-> y, attack |-> attack, defense |-> defense,
   score |-> attack * 12 + defense * 18
             + ((7 - Abs(x - 7)) + (7 - Abs(y - 7))) * 50 * 10
             + (IF attack >= LIVE_FOUR \/ defense >= LIVE_FOUR THEN 1000000 * 10 ELSE 0)
             + (IF attack >= RUSH_FOUR \/ defense >= RUSH_FOUR THEN 500000 * 10 ELSE 0)
             + (IF attack >= LIVE_THREE \/ defense >= LIVE_THREE THEN 100000 * 10 ELSE 0)]

\* the candidates of getCandidatesImproved in scan order, live being liveCells
candidatesOf(board, live, aiPlayer, opponent) ==
  array([k \in 1 .. Len(live) |->
           candidate(live[k][1], live[k][2],
                     evaluatePoint(board, live[k][1], live[k][2], aiPlayer),
                     evaluatePoint(board, live[k][1], live[k][2], opponent))])

\* getCandidatesImproved had it sliced before sorting
getCandidatesSlicedFirst(gs, aiPlayer, limit) ==
  sortedPrefix(SubSeq(candidatesOf(gs.board, liveCells(gs.board), aiPlayer, gs.playerColor),
                      1, Min(limit, Len(liveCells(gs.board)))), limit)

getCandidatesImproved(gs, aiPlayer, limit) ==
  sortedPrefix(candidatesOf(gs.board, liveCells(gs.board), aiPlayer, gs.playerColor), limit)

getCandidates(gs, aiPlayer, limit) == getCandidatesImproved(gs, aiPlayer, limit)

\* ------------------------------------------------------------ static evaluation

\* larger than every score times 10 the model computes
Infinity == 2000000000

\* one side of one axis in evaluatePosition, n stones of player long: count,
\* and block, whether the walk ended on a cell off the board or not empty
sideEnd(board, x, y, dx, dy, n) ==
  [count |-> n,
   block |-> IF n < 4 /\ (~InBoard(x + dx * (n + 1), y + dy * (n + 1))
                          \/ board[<<x + dx * (n + 1), y + dy * (n + 1)>>] # 0)
             THEN 1 ELSE 0]

sideOf(board, x, y, dx, dy, player) ==
  sideEnd(board, x, y, dx, dy, runFrom(board, x, y, dx, dy, player, 1))

\* what one axis adds in evaluatePosition, f and b being its two sides
axisValue(f, b) ==
  IF f.block + b.block < 2
    THEN (1 + f.count + b.count) * (1 + f.count + b.count) * (2 - (f.block + b.block))
  ELSE 0

\* the sum of the numbers of the array s
RECURSIVE sum(_, _)
sum(s, k) == IF k > Len(s) THEN 0 ELSE s[k] + sum(s, k + 1)

evaluatePosition(board, x, y, player) ==
  sum(array([k \in 1 .. 4 |->
               axisValue(sideOf(board, x, y, directions[k][1], directions[k][2], player),
                         sideOf(board, x, y, -directions[k][1], -directions[k][2], player))]), 1)

\* what the cell c adds to the score in evaluateBoard (position10 = 10,
\* attack10 = 8, defense10 = 10) and in the first loop of evaluateBoardHell
\* (position10 = 13, attack10 = 6, defense10 = 8, with the centre term), times 10
cellTerm(gs, c, aiPlayer, position10, attack10, defense10, centre) ==
  IF gs.board[c] = aiPlayer
    THEN evaluatePosition(gs.board, c[1], c[2], aiPlayer) * 10 + centre * 10
  ELSE IF gs.board[c] = gs.playerColor
    THEN -(evaluatePosition(gs.board, c[1], c[2], gs.playerColor) * position10) - centre * 10
  ELSE IF hasNeighbor(gs.board, c[1], c[2], 2)
    THEN evaluatePoint(gs.board, c[1], c[2], aiPlayer) * attack10
         - evaluatePoint(gs.board, c[1], c[2], gs.playerColor) * defense10
  ELSE 0

\* the sum of cellTerm over the rows lo .. hi of ScanOrder; hell: for
\* evaluateBoardHell
RECURSIVE sumCells(_, _, _, _, _)
sumCells(gs, aiPlayer, hell, lo, hi) ==
  IF lo = hi
    THEN IF hell
           THEN cellTerm(gs, ScanOrder[lo], aiPlayer, 13, 6, 8,
                         (7 - Abs(ScanOrder[lo][1] - 7)) * 20
                         + (7 - Abs(ScanOrder[lo][2] - 7)) * 20)
         ELSE cellTerm(gs, ScanOrder[lo], aiPlayer, 10, 8, 10, 0)
  ELSE sumCells(gs, aiPlayer, hell, lo, (lo + hi) \div 2)
       + sumCells(gs, aiPlayer, hell, ((lo + hi) \div 2) + 1, hi)

\* evaluateBoard, times 10
evaluateBoard(gs, aiPlayer) == sumCells(gs, aiPlayer, FALSE, 1, Len(ScanOrder))

\* the counts of countThreatsDetailed from scores, the scores of the four axes
\* at each of the cells it looks at
threatCounts(scores) ==
  [liveFour |->
     Cardinality({l \in (1 .. Len(scores)) \X (1 .. 4) : scores[l[1]][l[2]] >= LIVE_FOUR}),
   rushFour |->
     Cardinality({l \in (1 .. Len(scores)) \X (1 .. 4) :
                    scores[l[1]][l[2]] < LIVE_FOUR /\ scores[l[1]][l[2]] >= RUSH_FOUR}),
   liveThree |->
     Cardinality({l \in (1 .. Len(scores)) \X (1 .. 4) :
                    scores[l[1]][l[2]] < RUSH_FOUR /\ scores[l[1]][l[2]] >= LIVE_THREE}),
   sleepThree |->
     Cardinality({l \in (1 .. Len(scores)) \X (1 .. 4) :
                    scores[l[1]][l[2]] < LIVE_THREE /\ scores[l[1]][l[2]] >= SLEEP_THREE})]

\* the scores of the four axes at each of the cells live
scoresOf(board, live, player) ==
  array([n \in 1 .. Len(live) |-> lineScores(board, live[n][1], live[n][2], player)])

countThreatsDetailed(board, player) == threatCounts(scoresOf(board, liveCells(board), player))

\* what the threat counts add to the score in evaluateBoardHell, times 10
threatTerm(myThreats, oppThreats) ==
  myThreats.liveFour * LIVE_FOUR * 8
  + myThreats.rushFour * RUSH_FOUR * 5
  + myThreats.liveThree * LIVE_THREE * 3
  + myThreats.sleepThree * SLEEP_THREE * 1
  - oppThreats.liveFour * LIVE_FOUR * 10
  - oppThreats.rushFour * RUSH_FOUR * 7
  - oppThreats.liveThree * LIVE_THREE * 5
  - oppThreats.sleepThree * SLEEP_THREE * 2
  + (IF myThreats.rushFour >= 2 THEN LIVE_FOUR * 6 ELSE 0)
  + (IF myThreats.rushFour >= 1 /\ myThreats.liveThree >= 1 THEN LIVE_FOUR * 5 ELSE 0)
  + (IF myThreats.liveThree >= 2 THEN RUSH_FOUR * 8 ELSE 0)
  - (IF oppThreats.rushFour >= 2 THEN LIVE_FOUR * 8 ELSE 0)
  - (IF oppThreats.rushFour >= 1 /\ oppThreats.liveThree >= 1 THEN LIVE_FOUR * 7 ELSE 0)
  - (IF oppThreats.liveThree >= 2 THEN RUSH_FOUR * 10 ELSE 0)

\* evaluateBoardHell, times 10
evaluateBoardHell(gs, aiPlayer) ==
  sumCells(gs, aiPlayer, TRUE, 1, Len(ScanOrder))
  + threatTerm(countThreatsDetailed(gs.board, aiPlayer),
               countThreatsDetailed(gs.board, gs.playerColor))

\* ------------------------------------------------------------ minimax (tier Hard)

\* One pass of the loop of minimax / minimaxHellImproved, after the recursive
\* call: sub is the call's result (the gameState it left and its score), c the
\* cell tried.  The cell is cleared, the bounds are updated; done: the loop
\* breaks (beta <= alpha).
searchStepBreaking(sub, c, alpha, beta, isMaximizing, best) ==
  [gs |-> [sub.gs EXCEPT !.board[c] = 0],
   best |-> IF isMaximizing THEN Max(best, sub.ret) ELSE Min(best, sub.ret),
   alpha |-> IF isMaximizing THEN Max(alpha, sub.ret) ELSE alpha,
   beta |-> IF isMaximizing THEN beta ELSE Min(beta, sub.ret),
   done |-> TRUE]

searchStep(sub, c, alpha, beta, isMaximizing, best) ==
  [gs |-> [sub.gs EXCEPT !.board[c] = 0],
   best |-> IF isMaximizing THEN Max(best, sub.ret) ELSE Min(best, sub.ret),
   alpha |-> IF isMaximizing THEN Max(alpha, sub.ret) ELSE alpha,
   beta |-> IF isMaximizing THEN beta ELSE Min(beta, sub.ret),
   done |-> IF isMaximizing THEN beta <= Max(alpha, sub.ret) ELSE Min(beta, sub.ret) <= alpha]

\* the cell of the k-th of candidates
cellOf(candidates, k) == <<candidates[k].x, candidates[k].y>>

\* minimax, in the order of its code: minimaxAi after hasImmediateWin(aiPlayer)
\* (aiWins), minimaxOpp after hasImmediateWin(opponent) (oppWins), minimaxSearch
\* after getCandidates, minimaxLoop the loop from the k-th candidate on (best:
\* maxScore / minScore so far), minimaxNext after one pass s of the loop.
\* Scores are times 10.
RECURSIVE minimax(_, _, _, _, _, _)
RECURSIVE minimaxAi(_, _, _, _, _, _)
RECURSIVE minimaxOpp(_, _, _, _, _, _)
RECURSIVE minimaxSearch(_, _, _, _, _, _, _)
RECURSIVE minimaxLoop(_, _, _, _, _, _, _, _, _)
RECURSIVE minimaxNext(_, _, _, _, _, _)
minimax(gs, depth, alpha, beta, isMaximizing, aiPlayer) ==
  minimaxAi(hasImmediateWin(counted(gs, 1), aiPlayer), depth, alpha, beta, isMaximizing,
            aiPlayer)

minimaxAi(aiWins, depth, alpha, beta, isMaximizing, aiPlayer) ==
  IF aiWins.ret THEN [gs |-> aiWins.gs, ret |-> (WIN_SCORE + depth) * 10]
  ELSE minimaxOpp(hasImmediateWin(aiWins.gs, aiWins.gs.playerColor),
                  depth, alpha, beta, isMaximizing, aiPlayer)

minimaxOpp(oppWins, depth, alpha, beta, isMaximizing, aiPlayer) ==
  IF oppWins.ret THEN [gs |-> oppWins.gs, ret |-> (-WIN_SCORE - depth) * 10]
  ELSE minimaxSearch(oppWins.gs, depth, alpha, beta, isMaximizing, aiPlayer,
                     IF depth = 0 THEN <<>>
                     ELSE getCandidates(oppWins.gs, aiPlayer, HARD_SEARCH_LIMIT))

minimaxSearch(gs, depth, alpha, beta, isMaximizing, aiPlayer, candidates) ==
  IF depth = 0 \/ Len(candidates) = 0 THEN [gs |-> gs, ret |-> evaluateBoard(gs, aiPlayer)]
  ELSE minimaxLoop(gs, depth, alpha, beta, isMaximizing, aiPlayer, candidates, 1,
                   IF isMaximizing THEN -Infinity ELSE Infinity)

minimaxLoop(gs, depth, alpha, beta, isMaximizing, aiPlayer, candidates, k, best) ==
  IF k > Len(candidates) THEN [gs |-> gs, ret |-> best]
  ELSE minimaxNext(
         searchStep(
           minimax([gs EXCEPT !.board[cellOf(candidates, k)] =
                                IF isMaximizing THEN aiPlayer ELSE gs.playerColor],
                   depth - 1, alpha, beta, ~isMaximizing, aiPlayer),
           cellOf(candidates, k), alpha, beta, isMaximizing, best),
         depth, isMaximizing, aiPlayer, candidates, k)

minimaxNext(s, depth, isMaximizing, aiPlayer, candidates, k) ==
  IF s.done THEN [gs |-> s.gs, ret |-> s.best]
  ELSE minimaxLoop(s.gs, depth, s.alpha, s.beta, isMaximizing, aiPlayer, candidates, k + 1,
                   s.best)

\* One pass of the loop of hardMinimax / hellMinimaxImproved, after the search:
\* the cell is cleared and the best move so far is kept or replaced.
rootStep(sub, c, bestMove, bestScore) ==
  [gs |-> [sub.gs EXCEPT !.board[c] = 0],
   bestMove |-> IF sub.ret > bestScore THEN Move(c[1], c[2]) ELSE bestMove,
   bestScore |-> IF sub.ret > bestScore THEN sub.ret ELSE bestScore]

\* hardMinimax's loop over the root candidates from the k-th on, and
\* hardMinimaxNext, what follows one pass s of it
RECURSIVE hardMinimaxLoop(_, _, _, _, _, _)
RECURSIVE hardMinimaxNext(_, _, _, _)
hardMinimaxLoop(gs, aiPlayer, candidates, k, bestMove, bestScore) ==
  IF k > Len(candidates)
    THEN [gs |-> gs, ret |-> IF bestMove # null THEN bestMove ELSE Move(7, 7)]
  ELSE hardMinimaxNext(
         rootStep(minimax([gs EXCEPT !.board[cellOf(candidates, k)] = aiPlayer],
                          HARD_SEARCH_DEPTH - 1, -Infinity, Infinity, FALSE, aiPlayer),
                  cellOf(candidates, k), bestMove, bestScore),
         aiPlayer, candidates, k)

hardMinimaxNext(s, aiPlayer, candidates, k) ==
  hardMinimaxLoop(s.gs, aiPlayer, candidates, k + 1, s.bestMove, s.bestScore)

\* The result of a root search whose values are not computed: the k-th root
\* candidate is taken to have the first highest value.  Every value the search
\* returns is above -Infinity, so the searches end with one of the candidates
\* as bestMove, or with (7,7) when there is none.
drawn(gs, candidates, k) ==
  IF Len(candidates) = 0 THEN [gs |-> gs, ret |-> Move(7, 7)]
  ELSE [gs |-> gs,
        ret |-> Move(candidates[((k - 1) % Len(candidates)) + 1].x,
                     candidates[((k - 1) % Len(candidates)) + 1].y)]

\* hardMinimax after getCandidatesImproved.  oracle.search = 0: the search is
\* run; oracle.search = k > 0: drawn
hardMinimaxOf(gs, aiPlayer, oracle, candidates) ==
  IF oracle.search = 0 THEN hardMinimaxLoop(gs, aiPlayer, candidates, 1, null, -Infinity)
  ELSE drawn(gs, candidates, oracle.search)

hardMinimax(gs, aiPlayer, oracle) ==
  hardMinimaxOf(gs, aiPlayer, oracle, getCandidatesImproved(gs, aiPlayer, HARD_CANDIDATE_LIMIT))

\* one scan of the board for player; minScore is for findThreat
Try(scan, player, minScore) == [scan |-> scan, player |-> player, minScore |-> minScore]

\* what the scan try finds
tryOf(board, try) ==
  IF try.scan = "findThreat" THEN findThreat(board, try.player, try.minScore)
  ELSE findCompound(try.scan, board, try.player)

\* the first of tries (scans of one board, in the order of the source) that
\* finds a cell, from the k-th on; null when none does
RECURSIVE firstFound(_, _, _)
RECURSIVE firstFoundNext(_, _, _, _)
firstFound(board, tries, k) ==
  IF k > Len(tries) THEN null
  ELSE firstFoundNext(tryOf(board, tries[k]), board, tries, k)

firstFoundNext(found, board, tries, k) ==
  IF found # null THEN found ELSE firstFound(board, tries, k + 1)

\* getHardMove from step 5 on (first: what the first four steps gave), and
\* from the search on (found: what steps 5 to 7 gave)
getHardMoveSearch(gs, found, aiPlayer, oracle) ==
  IF found # null THEN [gs |-> gs, ret |-> found] ELSE hardMinimax(gs, aiPlayer, oracle)

getHardMoveFrom(first, aiPlayer, oracle) ==
  IF first.ret # null THEN first
  ELSE getHardMoveSearch(first.gs,
                         firstFound(first.gs.board,
                                    <<Try("findThreat", aiPlayer, RUSH_FOUR),
                                      Try("findDoubleRushFour", aiPlayer, 0),
                                      Try("findFourThreeCombo", aiPlayer, 0),
                                      Try("findDoubleThree", aiPlayer, 0),
                                      Try("findDoubleRushFour", first.gs.playerColor, 0),
                                      Try("findFourThreeCombo", first.gs.playerColor, 0),
                                      Try("findDoubleThree", first.gs.playerColor, 0)>>, 1),
                         aiPlayer, oracle)

getHardMove(gs, aiPlayer, oracle) == getHardMoveFrom(winBlockFour(gs, aiPlayer), aiPlayer, oracle)

\* ------------------------------------------------------------ tier Hell

\* minimaxHellImproved, in the order of its code, as minimax above
RECURSIVE minimaxHellImproved(_, _, _, _, _, _)
RECURSIVE minimaxHellAi(_, _, _, _, _, _)
RECURSIVE minimaxHellOpp(_, _, _, _, _, _)
RECURSIVE minimaxHellSearch(_, _, _, _, _, _, _)
RECURSIVE minimaxHellLoop(_, _, _, _, _, _, _, _, _)
RECURSIVE minimaxHellNext(_, _, _, _, _, _)
minimaxHellImproved(gs, depth, alpha, beta, isMaximizing, aiPlayer) ==
  minimaxHellAi(hasImmediateWin(counted(gs, 1), aiPlayer), depth, alpha, beta, isMaximizing,
                aiPlayer)

minimaxHellAi(aiWins, depth, alpha, beta, isMaximizing, aiPlayer) ==
  IF aiWins.ret THEN [gs |-> aiWins.gs, ret |-> (WIN_SCORE + depth) * 10]
  ELSE minimaxHellOpp(hasImmediateWin(aiWins.gs, aiWins.gs.playerColor),
                      depth, alpha, beta, isMaximizing, aiPlayer)

minimaxHellOpp(oppWins, depth, alpha, beta, isMaximizing, aiPlayer) ==
  IF oppWins.ret THEN [gs |-> oppWins.gs, ret |-> (-WIN_SCORE - depth) * 10]
  ELSE minimaxHellSearch(oppWins.gs, depth, alpha, beta, isMaximizing, aiPlayer,
                         IF depth = 0 THEN <<>>
                         ELSE getCandidatesImproved(oppWins.gs, aiPlayer, HELL_SEARCH_LIMIT))

minimaxHellSearch(gs, depth, alpha, beta, isMaximizing, aiPlayer, candidates) ==
  IF depth = 0 \/ Len(candidates) = 0
    THEN [gs |-> gs, ret |-> evaluateBoardHell(gs, aiPlayer)]
  ELSE minimaxHellLoop(gs, depth, alpha, beta, isMaximizing, aiPlayer, candidates, 1,
                       IF isMaximizing THEN -Infinity ELSE Infinity)

minimaxHellLoop(gs, depth, alpha, beta, isMaximizing, aiPlayer, candidates, k, best) ==
  IF k > Len(candidates) THEN [gs |-> gs, ret |-> best]
  ELSE minimaxHellNext(
         searchStep(
           minimaxHellImproved([gs EXCEPT !.board[cellOf(candidates, k)] =
                                            IF isMaximizing THEN aiPlayer ELSE gs.playerColor],
                               depth - 1, alpha, beta, ~isMaximizing, aiPlayer),
           cellOf(candidates, k), alpha, beta, isMaximizing, best),
         depth, isMaximizing, aiPlayer, candidates, k)

minimaxHellNext(s, depth, isMaximizing, aiPlayer, candidates, k) ==
  IF s.done THEN [gs |-> s.gs, ret |-> s.best]
  ELSE minimaxHellLoop(s.gs, depth, s.alpha, s.beta, isMaximizing, aiPlayer, candidates,
                       k + 1, s.best)

\* hellMinimaxImproved's loop over the root candidates from the k-th on, and
\* hellMinimaxNext, what follows one pass s of it
RECURSIVE hellMinimaxLoop(_, _, _, _, _, _)
RECURSIVE hellMinimaxNext(_, _, _, _)
hellMinimaxLoop(gs, aiPlayer, candidates, k, bestMove, bestScore) ==
  IF k > Len(candidates)
    THEN [gs |-> gs, ret |-> IF bestMove # null THEN bestMove ELSE Move(7, 7)]
  ELSE hellMinimaxNext(
         rootStep(minimaxHellImproved([gs EXCEPT !.board[cellOf(candidates, k)] = aiPlayer],
                                      HELL_SEARCH_DEPTH - 1, -Infinity, Infinity, FALSE,
                                      aiPlayer),
                  cellOf(candidates, k), bestMove, bestScore),
         aiPlayer, candidates, k)

hellMinimaxNext(s, aiPlayer, candidates, k) ==
  hellMinimaxLoop(s.gs, aiPlayer, candidates, k + 1, s.bestMove, s.bestScore)

\* hellMinimaxImproved after getCandidatesImproved; oracle.search as in
\* hardMinimaxOf
hellMinimaxOf(gs, aiPlayer, oracle, candidates) ==
  IF oracle.search = 0 THEN hellMinimaxLoop(gs, aiPlayer, candidates, 1, null, -Infinity)
  ELSE drawn(gs, candidates, oracle.search)

hellMinimaxImproved(gs, aiPlayer, oracle) ==
  hellMinimaxOf(gs, aiPlayer, oracle, getCandidatesImproved(gs, aiPlayer, HELL_CANDIDATE_LIMIT))

\* maxScore of findAllRushFoursImproved at one cell, from the scores ls of its
\* four axes: the largest that is a rush four, 0 when none is
maxRushFour(ls) ==
  Max(Max(IF ls[1] >= RUSH_FOUR THEN ls[1] ELSE 0, IF ls[2] >= RUSH_FOUR THEN ls[2] ELSE 0),
      Max(IF ls[3] >= RUSH_FOUR THEN ls[3] ELSE 0, IF ls[4] >= RUSH_FOUR THEN ls[4] ELSE 0))

\* the cells live with the score of each: maxRushFour for
\* findAllRushFoursImproved (rush), evaluatePoint for findAllThreatsImproved
threatCells(board, live, player, rush) ==
  array([k \in 1 .. Len(live) |->
           [x |-> live[k][1], y |-> live[k][2],
            score |-> IF rush THEN maxRushFour(lineScores(board, live[k][1], live[k][2], player))
                      ELSE evaluatePoint(board, live[k][1], live[k][2], player)]])

\* the moves of all that score at least minScore, sorted
threatMoves(all, minScore) ==
  sortedPrefix(SelectSeq(all, LAMBDA m : m.score >= minScore), Len(all))

\* the first n of moves
slice(moves, n) == SubSeq(moves, 1, Min(n, Len(moves)))

findAllRushFoursImproved(board, player) ==
  slice(threatMoves(threatCells(board, liveCells(board), player, TRUE), RUSH_FOUR), 10)

findAllThreatsImproved(board, player) ==
  threatMoves(threatCells(board, liveCells(board), player, FALSE), LIVE_THREE)

\* The double loop of findAllDefensePoints: the inner loop of row i from column
\* j on, and the outer loop from row i on; found is defensePoints so far
RECURSIVE findAllDefensePointsRow(_, _, _, _, _)
findAllDefensePointsRow(gs, attackPlayer, i, j, found) ==
  IF j >= BOARD_SIZE THEN [gs |-> gs, ret |-> found]
  ELSE IF gs.board[<<i, j>>] # 0 THEN findAllDefensePointsRow(gs, attackPlayer, i, j + 1, found)
  ELSE IF ~hasNeighbor(gs.board, i, j, 2)
    THEN findAllDefensePointsRow(gs, attackPlayer, i, j + 1, found)
  ELSE findAllDefensePointsRow(
         [gs EXCEPT !.board[<<i, j>>] = 0], attackPlayer, i, j + 1,
         IF checkWinWithoutState([gs.board EXCEPT ![<<i, j>>] = attackPlayer], i, j, attackPlayer)
           THEN Append(found, <<i, j>>) ELSE found)

RECURSIVE findAllDefensePointsFrom(_, _, _, _)
RECURSIVE findAllDefensePointsNext(_, _, _)
findAllDefensePointsFrom(gs, attackPlayer, i, found) ==
  IF i >= BOARD_SIZE THEN [gs |-> gs, ret |-> found]
  ELSE findAllDefensePointsNext(findAllDefensePointsRow(gs, attackPlayer, i, 0, found),
                                attackPlayer, i)

findAllDefensePointsNext(row, attackPlayer, i) ==
  findAllDefensePointsFrom(row.gs, attackPlayer, i + 1, row.ret)

findAllDefensePoints(gs, attackPlayer) == findAllDefensePointsFrom(gs, attackPlayer, 0, <<>>)

\* vcfSearch's return on a move that completes five (1788-1791)
vcfWinReturn(placed, move) ==
  [gs |-> [placed EXCEPT !.board[<<move.x, move.y>>] = 0], ret |-> Move(move.x, move.y)]

\* one pass of that loop had it left the defence on the board
vcfDefenseStepKeeping(result, c) == [gs |-> result.gs, done |-> result.ret = null]

\* One pass of the loop over defensePoints in vcfSearch, after the recursive
\* call: result is the call's result, c the defence tried.  The cell is
\* cleared; done: the loop breaks with allDefenseFail = false.
vcfDefenseStep(result, c) ==
  [gs |-> [result.gs EXCEPT !.board[c] = 0], done |-> result.ret = null]

\* vcfSearch(depth, isAttacker) of searchVCFImproved(player, maxDepth):
\* vcfWins after hasImmediateWin (wins), vcfMoves the loop over rushFours from
\* the k-th on, vcfDefend after findAllDefensePoints (defensePoints),
\* vcfDefenses the loop over defensePoints from the k-th on (ret:
\* allDefenseFail), vcfDefenseNext after one pass s of it, vcfAfter after that
\* loop (defended.ret: allDefenseFail)
RECURSIVE vcfSearch(_, _, _, _)
RECURSIVE vcfWins(_, _, _, _)
RECURSIVE vcfMoves(_, _, _, _, _)
RECURSIVE vcfDefend(_, _, _, _, _)
RECURSIVE vcfDefenses(_, _, _, _, _)
RECURSIVE vcfDefenseNext(_, _, _, _, _)
RECURSIVE vcfAfter(_, _, _, _, _, _)
vcfSearch(gs, player, depth, isAttacker) ==
  IF depth <= 0 THEN [gs |-> counted(gs, 1), ret |-> null]
  ELSE vcfWins(hasImmediateWin(counted(gs, 1), player), player, depth, isAttacker)

vcfWins(wins, player, depth, isAttacker) ==
  IF wins.ret THEN findImmediateWin(wins.gs, player)
  ELSE IF isAttacker
    THEN vcfMoves(wins.gs, player, depth, findAllRushFoursImproved(wins.gs.board, player), 1)
  ELSE [gs |-> wins.gs, ret |-> null]

vcfMoves(gs, player, depth, rushFours, k) ==
  IF k > Len(rushFours) THEN [gs |-> gs, ret |-> null]
  ELSE IF checkWinWithoutState([gs.board EXCEPT ![cellOf(rushFours, k)] = player],
                               rushFours[k].x, rushFours[k].y, player)
    THEN vcfWinReturn([gs EXCEPT !.board[cellOf(rushFours, k)] = player], rushFours[k])
  ELSE vcfDefend(findAllDefensePoints([gs EXCEPT !.board[cellOf(rushFours, k)] = player],
                                      player),
                 player, depth, rushFours, k)

vcfDefend(defensePoints, player, depth, rushFours, k) ==
  vcfAfter(vcfDefenses(defensePoints.gs, player, depth, defensePoints.ret, 1),
           Len(defensePoints.ret) > 0, player, depth, rushFours, k)

vcfDefenses(gs, player, depth, defensePoints, k) ==
  IF k > Len(defensePoints) THEN [gs |-> gs, ret |-> TRUE]
  ELSE vcfDefenseNext(
         vcfDefenseStep(vcfSearch([gs EXCEPT !.board[defensePoints[k]] = Other(player)],
                                  player, depth - 1, TRUE),
                        defensePoints[k]),
         player, depth, defensePoints, k)

vcfDefenseNext(s, player, depth, defensePoints, k) ==
  IF s.done THEN [gs |-> s.gs, ret |-> FALSE]
  ELSE vcfDefenses(s.gs, player, depth, defensePoints, k + 1)

vcfAfter(defended, anyDefense, player, depth, rushFours, k) ==
  IF defended.ret /\ anyDefense
    THEN [gs |-> [defended.gs EXCEPT !.board[cellOf(rushFours, k)] = 0],
          ret |-> Move(rushFours[k].x, rushFours[k].y)]
  ELSE vcfMoves([defended.gs EXCEPT !.board[cellOf(rushFours, k)] = 0],
                player, depth, rushFours, k + 1)

searchVCFImproved(gs, player, maxDepth) == vcfSearch(gs, player, maxDepth, TRUE)

\* hasWinningThreat of searchVCTImproved, on the board with the move placed
hasWinningThreat(board, player) ==
  firstFound(board, <<Try("findThreat", player, LIVE_FOUR),
                      Try("findDoubleRushFour", player, 0),
                      Try("findFourThreeCombo", player, 0),
                      Try("findDoubleThree", player, 0)>>, 1) # null

\* searchVCTImproved's loop over threats from the k-th on
RECURSIVE vctMoves(_, _, _, _)
vctMoves(gs, player, threats, k) ==
  IF k > Len(threats) THEN [gs |-> gs, ret |-> null]
  ELSE IF hasWinningThreat([gs.board EXCEPT ![cellOf(threats, k)] = player], player)
    THEN [gs |-> [gs EXCEPT !.board[cellOf(threats, k)] = 0],
          ret |-> Move(threats[k].x, threats[k].y)]
  ELSE vctMoves([gs EXCEPT !.board[cellOf(threats, k)] = 0], player, threats, k + 1)

searchVCTImproved(gs, player, maxDepth) ==
  vctMoves(gs, player, slice(findAllThreatsImproved(gs.board, player), 8), 1)

\* OPENING_BOOK.responses: condition, move
OPENING_BOOK_responses ==
  << [condition |-> {<<7, 7>>}, move |-> Move(8, 8)],
     [condition |-> {<<6, 7>>}, move |-> Move(7, 7)],
     [condition |-> {<<8, 7>>}, move |-> Move(7, 7)],
     [condition |-> {<<7, 6>>}, move |-> Move(7, 7)],
     [condition |-> {<<7, 8>>}, move |-> Move(7, 7)] >>

\* the cells findBestOpeningMove looks at: dx outer, dy inner, each from -2 to
\* 2 around the centre 7
openingRegion ==
  array([k \in 1 .. 25 |-> <<7 + ((k - 1) \div 5) - 2, 7 + ((k - 1) % 5) - 2>>])

\* findBestOpeningMove's choice among candidates
openingChoice(candidates) ==
  IF Len(candidates) = 0 THEN Move(7, 7)
  ELSE getMediumMoveBest(sortedPrefix(candidates, 1))

findBestOpeningMove(gs, aiPlayer) ==
  openingChoice(scoredCells(gs.board,
                            SelectSeq(openingRegion,
                                      LAMBDA c : gs.board[c] = 0
                                                 /\ hasNeighbor(gs.board, c[1], c[2], 1)),
                            aiPlayer, gs.playerColor, 10, 10))

\* the loop of getHellMove over OPENING_BOOK.responses from the k-th on
RECURSIVE bookMove(_, _)
bookMove(gs, k) ==
  IF k > Len(OPENING_BOOK_responses) THEN null
  ELSE IF /\ <<gs.history[1].x, gs.history[1].y>> \in OPENING_BOOK_responses[k].condition
          /\ gs.board[<<OPENING_BOOK_responses[k].move.x,
                        OPENING_BOOK_responses[k].move.y>>] = 0
    THEN OPENING_BOOK_responses[k].move
  ELSE bookMove(gs, k + 1)

\* getHellMove with one stone on the board had it not looked in OPENING_BOOK
getHellMoveWithoutBook(gs, aiPlayer, book) ==
  [gs |-> gs, ret |-> findBestOpeningMove(gs, aiPlayer)]

\* getHellMove with one stone on the board, book being what the loop gave
getHellMoveOpening(gs, aiPlayer, book) ==
  [gs |-> gs, ret |-> IF book # null THEN book ELSE findBestOpeningMove(gs, aiPlayer)]

\* getHellMove from step 5 on (first: what the first four steps gave), from
\* step 7 on (found: what steps 5 and 6 gave), from step 8 on (vcfMove) and
\* step 9 (vctMove)
getHellMoveMinimax(vctMove, aiPlayer, oracle) ==
  IF vctMove.ret # null THEN vctMove ELSE hellMinimaxImproved(vctMove.gs, aiPlayer, oracle)

getHellMoveVct(vcfMove, aiPlayer, oracle) ==
  IF vcfMove.ret # null THEN vcfMove
  ELSE getHellMoveMinimax(searchVCTImproved(vcfMove.gs, aiPlayer, HELL_VCT_DEPTH),
                          aiPlayer, oracle)

getHellMoveSearch(gs, found, aiPlayer, oracle) ==
  IF found # null THEN [gs |-> gs, ret |-> found]
  ELSE getHellMoveVct(searchVCFImproved(gs, aiPlayer, HELL_VCF_DEPTH), aiPlayer, oracle)

getHellMoveFrom(first, aiPlayer, oracle) ==
  IF first.ret # null THEN first
  ELSE getHellMoveSearch(first.gs,
                         firstFound(first.gs.board,
                                    <<Try("findDoubleRushFour", aiPlayer, 0),
                                      Try("findFourThreeCombo", aiPlayer, 0),
                                      Try("findDoubleThree", aiPlayer, 0),
                                      Try("findDoubleRushFour", first.gs.playerColor, 0),
                                      Try("findFourThreeCombo", first.gs.playerColor, 0),
                                      Try("findDoubleThree", first.gs.playerColor, 0)>>, 1),
                         aiPlayer, oracle)

getHellMove(gs, aiPlayer, oracle) ==
  IF Len(gs.history) = 0 THEN [gs |-> gs, ret |-> Move(7, 7)]
  ELSE IF Len(gs.history) = 1 THEN getHellMoveOpening(gs, aiPlayer, bookMove(gs, 1))
  ELSE getHellMoveFrom(winBlockFour(gs, aiPlayer), aiPlayer, oracle)

\* getAIMove had every tier taken the default case of its switch
getAIMoveDefaultCase(gs, oracle) == getEasyMove(gs, getAIPlayer(gs), oracle)

\* getAIMove: the tier's move
getAIMove(gs, oracle) ==
  CASE gs.difficulty = "easy" -> getEasyMove(gs, getAIPlayer(gs), oracle)
    [] gs.difficulty = "medium" -> getMediumMove(gs, getAIPlayer(gs))
    [] gs.difficulty = "hard" -> getHardMove(gs, getAIPlayer(gs), oracle)
    [] gs.difficulty = "hell" -> getHellMove(gs, getAIPlayer(gs), oracle)
    [] OTHER -> getEasyMove(gs, getAIPlayer(gs), oracle)

\* ------------------------------------------------------------ the page

\* the gameState literal: board is the empty array until init() runs
NewGameState ==
  [board |-> <<>>, history |-> <<>>, currentPlayer |-> 1, gameOver |-> FALSE,
   winningLine |-> <<>>, gameMode |-> "pvp", difficulty |-> "easy", playerColor |-> 1,
   isAiThinking |-> FALSE]

\* the cells the player is taken to click or touch
ClickCells == {<<7, 7>>, <<7, 8>>, <<0, 0>>}

\* the number of empty cells
emptyCount(board) == Cardinality({c \in Cells : board[c] = 0})

\* The outcomes of Math.random() in getEasyMove (best, idx), and of the root
\* search of hardMinimax / hellMinimaxImproved (search): with at most MaxExact
\* empty cells the search is run, with more its result is drawn.
Oracles(gs) ==
  IF gs.difficulty \in {"hard", "hell"}
    THEN IF emptyCount(gs.board) <= MaxExact
           THEN {[best |-> TRUE, idx |-> 0, search |-> 0]}
         ELSE {[best |-> TRUE, idx |-> 0, search |-> k] : k \in 1 .. MaxPick}
  ELSE IF gs.difficulty = "medium" THEN {[best |-> TRUE, idx |-> 0, search |-> 1]}
  ELSE {[best |-> TRUE, idx |-> 0, search |-> 1]}
       \cup {[best |-> FALSE, idx |-> i, search |-> 1] : i \in 0 .. 2}

\* call: the last handler that ran, the move it was about, what placePiece
\* returned, and mid, gameState when getAIMove() had returned
Called(name, move, ok, mid) == [name |-> name, move |-> move, ok |-> ok, mid |-> mid]

Init ==
  /\ gameState = NewGameState
  /\ pendingInit = 0
  /\ pendingAi = 0
  /\ call = Called("load", null, FALSE, NewGameState)
  /\ before = NewGameState

\* what a handler r that resets the game leaves
Started(name, r) ==
  /\ pendingInit + r.timers <= MaxTimers
  /\ gameState' = r.gs
  /\ pendingInit' = pendingInit + r.timers
  /\ call' = Called(name, null, TRUE, r.gs)
  /\ before' = r.gs
  /\ UNCHANGED pendingAi

\* a menu button: startGame(mode, diff, color)
StartGame(mode, diff, color) == Started("startGame", startGame(gameState, mode, diff, color))

\* the restart button: restartGame()
RestartGame == gameState.board # <<>> /\ Started("restartGame", init(gameState))

\* what placePiece, called by a click, leaves: r is its result
Clicked(c, r) ==
  /\ pendingAi + r.timers <= MaxTimers
  /\ gameState' = r.gs
  /\ pendingAi' = pendingAi + r.timers
  /\ call' = Called("placePiece", Move(c[1], c[2]), r.ret, r.gs)
  /\ before' = gameState
  /\ UNCHANGED pendingInit

\* a click or a touch on the canvas at cell c, up to maxMoves moves
Click(c, maxMoves) ==
  /\ gameState.board # <<>>
  /\ Len(gameState.history) < maxMoves
  /\ canPlayerMove(gameState)
  /\ Clicked(c, placePiece(gameState, c[1], c[2], FALSE))

\* the undo button
Undo ==
  /\ gameState.board # <<>>
  /\ gameState' = undo(gameState)
  /\ call' = Called("undo", null, TRUE, gameState')
  /\ before' = gameState
  /\ UNCHANGED <<pendingInit, pendingAi>>

\* the timer of init() fires: aiMove()
InitTimer ==
  /\ pendingInit > 0
  /\ pendingAi < MaxTimers
  /\ gameState' = aiMove(gameState)
  /\ pendingInit' = pendingInit - 1
  /\ pendingAi' = pendingAi + 1
  /\ call' = Called("aiMove", null, TRUE, gameState')
  /\ before' = gameState'

\* the callback of aiMove()'s timer, from getAIMove() on.  A move with x off
\* the board makes placePiece throw on gameState.board[x][y], which ends the
\* callback; with only y off the board placePiece returns false.
AiCallbackPlacedThinking(m, p) ==
  [gs |-> p.gs, move |-> m.ret, ok |-> p.ret, mid |-> m.gs, timers |-> p.timers]

AiCallbackPlaced(m, p) ==
  [gs |-> [p.gs EXCEPT !.isAiThinking = FALSE], move |-> m.ret, ok |-> p.ret,
   mid |-> m.gs, timers |-> p.timers]

AiCallbackPlace(m) ==
  IF m.ret.x \in Coords /\ m.ret.y \notin Coords
    THEN [gs |-> [m.gs EXCEPT !.isAiThinking = FALSE], move |-> m.ret, ok |-> FALSE,
          mid |-> m.gs, timers |-> 0]
  ELSE IF m.ret.x \notin Coords
    THEN [gs |-> m.gs, move |-> m.ret, ok |-> FALSE, mid |-> m.gs, timers |-> 0]
  ELSE AiCallbackPlaced(m, placePiece(m.gs, m.ret.x, m.ret.y, TRUE))

AiCallbackOn(gs, oracle) == AiCallbackPlace(getAIMove(gs, oracle))

\* the state the callback leaves, r being what AiCallbackOn gives
AiCallbackDone(r) ==
  /\ gameState' = r.gs
  /\ pendingAi' = pendingAi - 1 + r.timers
  /\ call' = Called("getAIMove", r.move, r.ok, r.mid)
  /\ before' = gameState
  /\ UNCHANGED pendingInit

AiCallback(maxMoves) ==
  /\ pendingAi > 0
  /\ Len(gameState.history) < maxMoves
  /\ \E oracle \in Oracles(gameState) : AiCallbackDone(AiCallbackOn(gameState, oracle))

Next ==
  \/ StartGame("pvp", "easy", "black")
  \/ \E diff \in {"easy", "medium", "hard", "hell"}, color \in {"black", "white"} :
       StartGame("pve", diff, color)
  \/ RestartGame
  \/ \E c \in ClickCells : Click(c, MaxMoves)
  \/ Undo
  \/ InitTimer
  \/ AiCallback(MaxMoves)

Spec == Init /\ [][Next]_vars

\* ------------------------------------------------------------ classifyPattern alone

\* the 9-character strings over the three characters of a pattern
Windows == [1 .. 9 -> {"O", "X", "_"}]

\* the string s read from its end
reverse(s) == array([k \in 1 .. Len(s) |-> s[Len(s) + 1 - k]])

InitClassify ==
  /\ gameState = NewGameState
  /\ pendingInit = 0
  /\ pendingAi = 0
  /\ before = NewGameState
  /\ \E w \in Windows : call = [name |-> "pattern", pattern |-> array(w)]

\* classifyPattern(pattern, 4), and the same on the reversed string
ClassifyPattern ==
  /\ call.name = "pattern"
  /\ call' = [name |-> "classifyPattern", pattern |-> call.pattern,
              ret |-> classifyPattern(call.pattern, 4),
              reversed |-> classifyPattern(reverse(call.pattern), 4)]
  /\ UNCHANGED <<gameState, pendingInit, pendingAi, before>>

NextClassify == ClassifyPattern

SpecClassify == InitClassify /\ [][NextClassify]_vars

\* ------------------------------------------------------------ checkWin alone

\* the longest line of stones laid on the board
MaxLine == 6

\* where a line starts: a corner, the far edge, the middle
LineStarts == {<<0, 0>>, <<9, 14>>, <<5, 7>>}

\* the board that holds the stones line[1], line[2], ... on the cells start,
\* start + d, start + 2d, ... that are on the board, and no other stone
lineBoard(start, d, line) ==
  [c \in Cells |->
     IF \E k \in 1 .. Len(line) : c = <<start[1] + d[1] * (k - 1), start[2] + d[2] * (k - 1)>>
       THEN line[CHOOSE k \in 1 .. Len(line) :
                   c = <<start[1] + d[1] * (k - 1), start[2] + d[2] * (k - 1)>>]
     ELSE 0]

\* gameState as checkWin finds it: a game is on, the board has just been written
InitWin ==
  /\ pendingInit = 0
  /\ pendingAi = 0
  /\ call = Called("board", null, FALSE, NewGameState)
  /\ before = NewGameState
  /\ \E start \in LineStarts, k \in 1 .. 4, line \in [1 .. MaxLine -> 0 .. 2] :
       gameState = [startGame(NewGameState, "pvp", "easy", "black").gs
                      EXCEPT !.board = lineBoard(start, directions[k], line)]

\* r: what checkWin(c, player) gives
CheckedWin(c, r) ==
  /\ gameState' = r.gs
  /\ call' = Called("checkWin", Move(c[1], c[2]), r.ret, r.gs)
  /\ before' = gameState
  /\ UNCHANGED <<pendingInit, pendingAi>>

\* checkWin(x, y, player) at a cell that holds a stone of player
CheckWin ==
  /\ call.name = "board"
  /\ \E c \in Cells :
       /\ gameState.board[c] # 0
       /\ CheckedWin(c, checkWin(gameState, c[1], c[2], gameState.board[c]))

NextWin == CheckWin

SpecWin == InitWin /\ [][NextWin]_vars

\* ------------------------------------------------------------ placePiece alone

\* the cells placePiece is called on, and the moves after which it is not
\* called any more
PlaceCells == {<<7, 7>>, <<7, 8>>, <<8, 8>>, <<0, 14>>}
MaxPlaced == 4

InitPlace ==
  /\ pendingInit = 0
  /\ pendingAi = 0
  /\ \E mode \in {"pvp", "pve"} : gameState = startGame(NewGameState, mode, "medium", "black").gs
  /\ call = Called("startGame", null, TRUE, gameState)
  /\ before = gameState

\* r: what placePiece(c, isAI) gives
Placed(c, isAI, r) ==
  /\ gameState' = r.gs
  /\ pendingAi' = pendingAi + r.timers
  /\ call' = Called(IF isAI THEN "placePiece by the AI" ELSE "placePiece", Move(c[1], c[2]),
                    r.ret, r.gs)
  /\ before' = gameState
  /\ UNCHANGED pendingInit

\* placePiece(x, y, isAI), as the click handler (isAI = false) and the AI
\* callback (isAI = true) call it
PlacePiece(c, isAI) ==
  /\ Len(gameState.history) < MaxPlaced
  /\ Placed(c, isAI, placePiece(gameState, c[1], c[2], isAI))

NextPlace == \E c \in PlaceCells, isAI \in BOOLEAN : PlacePiece(c, isAI)

SpecPlace == InitPlace /\ [][NextPlace]_vars


\* ------------------------------------------------------------ five in a row, three ways

\* the lines laid: of MaxLine cells, all but two of them black at least
FiveLines == { line \in [1 .. MaxLine -> 0 .. 2] : Cardinality({i \in 1 .. MaxLine : line[i] = 1}) >= MaxLine - 2 }

\* where the lines start: a corner and the middle
FiveStarts == {<<0, 0>>, <<5, 7>>}

\* the boards: one line of stones, and where it lies
InitFive ==
  /\ pendingInit = 0
  /\ pendingAi = 0
  /\ \E start \in FiveStarts, k \in 1 .. 4, line \in FiveLines :
       /\ gameState = [startGame(NewGameState, "pvp", "easy", "black").gs
                         EXCEPT !.board = lineBoard(start, directions[k], line)]
       /\ call = [name |-> "board", start |-> start, axis |-> k]
  /\ before = NewGameState

\* the cells of the line laid from call.start, and the cell before and after it
lineSpan ==
  IF call.name # "board" THEN {}
  ELSE { c \in Cells : \E i \in (-1) .. MaxLine :
           c = <<call.start[1] + directions[call.axis][1] * i,
                 call.start[2] + directions[call.axis][2] * i>> }

\* On the empty cell c: five, whether analyzeLinePattern gives FIVE on one of
\* the four axes; win, what checkWin returns with a stone of player written on
\* c as findImmediateWin writes it; winWithoutState, what checkWinWithoutState
\* returns there
FiveAt(c, player) ==
  /\ call.name = "board"
  /\ gameState.board[c] = 0
  /\ call' = [name |-> "five", x |-> c[1], y |-> c[2], player |-> player,
              five |-> \E k \in 1 .. 4 :
                         analyzeLinePattern(gameState.board, c[1], c[2], directions[k][1],
                                            directions[k][2], player) = FIVE,
              win |-> checkWin([gameState EXCEPT !.board[c] = player], c[1], c[2], player).ret,
              winWithoutState |->
                checkWinWithoutState([gameState.board EXCEPT ![c] = player], c[1], c[2], player)]
  /\ before' = gameState
  /\ UNCHANGED <<gameState, pendingInit, pendingAi>>

\* r: what findImmediateWin(player) gives
FoundImmediateWin(player, r) ==
  /\ gameState' = r.gs
  /\ call' = [name |-> "findImmediateWin", player |-> player, ret |-> r.ret]
  /\ before' = gameState
  /\ UNCHANGED <<pendingInit, pendingAi>>

FindImmediateWin(player) ==
  /\ call.name = "board"
  /\ FoundImmediateWin(player, findImmediateWin(gameState, player))

NextFive ==
  \/ \E c \in lineSpan, player \in 1 .. 2 : FiveAt(c, player)
  \/ \E player \in 1 .. 2 : FindImmediateWin(player)

SpecFive == InitFive /\ [][NextFive]_vars
\* ------------------------------------------------------------ getAIMove on boards

\* history when black has played the cells blacks and white the cells whites,
\* in turn, black first
historyOf(blacks, whites) ==
  array([k \in 1 .. (Len(blacks) + Len(whites)) |->
           IF k % 2 = 1
             THEN [x |-> blacks[(k + 1) \div 2][1], y |-> blacks[(k + 1) \div 2][2], player |-> 1]
           ELSE [x |-> whites[k \div 2][1], y |-> whites[k \div 2][2], player |-> 2]])

\* the board history has been played on
boardOf(history) ==
  [c \in Cells |->
     IF \E k \in 1 .. Len(history) : c = <<history[k].x, history[k].y>>
       THEN history[CHOOSE k \in 1 .. Len(history) : c = <<history[k].x, history[k].y>>].player
     ELSE 0]

\* gameState of a game of pve in tier diff when the AI, aiPlayer, is to move
\* and its callback is pending: the player's last placePiece has called aiMove()
\* (or, on the empty board, init()'s timer has)
aiToMove(diff, aiPlayer, history) ==
  [board |-> boardOf(history), history |-> history, currentPlayer |-> aiPlayer,
   gameOver |-> FALSE, winningLine |-> <<>>, gameMode |-> "pve", difficulty |-> diff,
   playerColor |-> Other(aiPlayer), isAiThinking |-> TRUE]

\* the game in which the AI has played aiCells and the player humanCells
position(diff, aiPlayer, aiCells, humanCells) ==
  aiToMove(diff, aiPlayer,
           IF aiPlayer = 1 THEN historyOf(aiCells, humanCells)
           ELSE historyOf(humanCells, aiCells))

\* cells, and as many of spare after them as make n cells
padded(cells, spare, n) == cells \o SubSeq(spare, 1, n - Len(cells))

\* stones away from the lines below and from one another, and stones of which
\* the first three are an open three and the first four an open four
Scattered == <<<<1, 1>>, <<1, 12>>, <<12, 1>>, <<13, 13>>, <<1, 6>>, <<13, 7>>>>
InRow == <<<<12, 3>>, <<12, 4>>, <<12, 5>>, <<12, 6>>, <<1, 12>>, <<13, 13>>>>

\* the cells of the line along the k-th axis
lineCells(k) ==
  array([i \in 1 .. 7 |->
           <<5 + directions[k][1] * (i - 1),
             (IF directions[k][2] < 0 THEN 10 ELSE 5) + directions[k][2] * (i - 1)>>])

\* the cells of the line along the k-th axis where shape has the character ch
shapeCells(shape, k, ch) ==
  SelectSeq(lineCells(k),
            LAMBDA c : \E i \in 1 .. Len(shape) : lineCells(k)[i] = c /\ shape[i] = ch)

\* Lines, O the stones of one side, X of the other: fours, one cell from five
\* (or from six), threes, and four stones that one more makes two fours
Fours ==
  { <<"_", "O", "O", "O", "O", "_">>, <<"X", "O", "O", "O", "O", "_">>,
    <<"O", "O", "O", "_", "O", "_">>, <<"O", "O", "_", "O", "O", "X">>,
    <<"O", "O", "O", "_", "O", "O">> }
Threes ==
  { <<"O", "O", "_", "_", "O", "_">>, <<"_", "O", "O", "O", "_", "_">>,
    <<"O", "_", "O", "_", "O", "_", "O">> }

\* the game in which owner ("ai" or "human") has the stones O of shape along
\* the k-th axis, the other side the stones X and then stones of spare, the AI
\* to move
shapePosition(diff, aiPlayer, owner, shape, k, spare) ==
  IF owner = "ai"
    THEN position(diff, aiPlayer, shapeCells(shape, k, "O"),
                  padded(shapeCells(shape, k, "X"), spare,
                         Len(shapeCells(shape, k, "O")) + (IF aiPlayer = 2 THEN 1 ELSE 0)))
  ELSE position(diff, aiPlayer,
                padded(shapeCells(shape, k, "X"), spare,
                       Len(shapeCells(shape, k, "O")) - (IF aiPlayer = 2 THEN 1 ELSE 0)),
                shapeCells(shape, k, "O"))

\* the first moves of games: none, the player's first stone, the AI's first
\* stone and the player's answer
Openings ==
  { <<>> }
  \cup { <<[x |-> c[1], y |-> c[2], player |-> 1]>> :
           c \in {<<7, 7>>, <<6, 7>>, <<8, 7>>, <<7, 6>>, <<7, 8>>, <<6, 6>>, <<0, 0>>} }
  \cup { <<[x |-> 7, y |-> 7, player |-> 1], [x |-> c[1], y |-> c[2], player |-> 2]>> :
           c \in {<<7, 8>>, <<8, 8>>} }

\* A board with no line longer than two, full but for the cells left: the
\* stone of (x, y) is black when x \div 2 + y is even.  A stone on one cell
\* left, the others far from it, makes a line of three at most.
fullBut(left) ==
  historyOf(SelectSeq(ScanOrder, LAMBDA c : c \notin left /\ ((c[1] \div 2) + c[2]) % 2 = 0),
            SelectSeq(ScanOrder, LAMBDA c : c \notin left /\ ((c[1] \div 2) + c[2]) % 2 = 1))

\* the cells left empty on the boards that are nearly full
Lefts == { {<<7, 7>>}, {<<7, 7>>, <<3, 4>>}, {<<7, 7>>, <<3, 4>>, <<11, 11>>} }

Tiers == {"easy", "medium", "hard", "hell"}

\* aiStats as the page sets it, and as aiMove() has just reset it
NewAiStats == [nodeCount |-> 0, candidateCount |-> 0, searchDepth |-> 0]

\* gs with the counters aiStats
withStats(gs, stats) ==
  [board |-> gs.board, history |-> gs.history, currentPlayer |-> gs.currentPlayer,
   gameOver |-> gs.gameOver, winningLine |-> gs.winningLine, gameMode |-> gs.gameMode,
   difficulty |-> gs.difficulty, playerColor |-> gs.playerColor,
   isAiThinking |-> gs.isAiThinking, aiStats |-> stats]

\* The game in which a stone of the AI on (7,5) makes a four with a gap along
\* the first axis and an open three along the second; its stone on (5,5)
\* makes a four with a gap and no more
crossPosition(diff, aiPlayer) ==
  position(diff, aiPlayer, <<<<4, 5>>, <<6, 5>>, <<8, 5>>, <<7, 6>>, <<7, 7>>>>,
           padded(<<>>, Scattered, IF aiPlayer = 2 THEN 6 ELSE 5))

\* The game of tier Hell in which the AI, black, can make a four on (4,4) that
\* the player must close on (5,4), and then two fours at once on (4,5); the
\* player's stone on (5,4) makes a four of its own, one cell, (5,5), from five
vcfPosition ==
  position("hell", 1,
           <<<<3, 4>>, <<6, 4>>, <<7, 4>>, <<2, 5>>, <<3, 5>>, <<6, 5>>, <<4, 6>>, <<4, 7>>>>,
           <<<<4, 8>>, <<5, 2>>, <<5, 3>>, <<5, 6>>, <<7, 3>>, <<3, 7>>, <<12, 1>>, <<13, 13>>>>)

Positions ==
  { shapePosition(diff, aiPlayer, owner, shape, k, spare) :
      diff \in Tiers, aiPlayer \in 1 .. 2, owner \in {"ai", "human"}, shape \in Fours,
      k \in 1 .. 4, spare \in {Scattered, InRow} }
  \cup { shapePosition(diff, 2, owner, shape, k, Scattered) :
           diff \in Tiers, owner \in {"ai", "human"}, shape \in Threes, k \in {1, 4} }
  \cup { aiToMove(diff, (Len(h) % 2) + 1, h) : diff \in Tiers, h \in Openings }
  \cup { aiToMove(diff, (Len(fullBut(left)) % 2) + 1, fullBut(left)) :
           diff \in Tiers, left \in Lefts }
  \cup { aiToMove("hell", 2, <<[x |-> c[1], y |-> c[2], player |-> 1]>>) : c \in Cells }
  \cup { crossPosition(diff, aiPlayer) : diff \in {"hard", "hell"}, aiPlayer \in 1 .. 2 }
  \cup { vcfPosition }

InitAI ==
  /\ gameState \in Positions
  /\ pendingInit = 0
  /\ pendingAi = 1
  /\ call = Called("aiMove", null, TRUE, gameState)
  /\ before = gameState

NextAI == AiCallback(BOARD_SIZE * BOARD_SIZE)

SpecAI == InitAI /\ [][NextAI]_vars

\* ------------------------------------------------------------ evaluatePointAdvanced alone

\* Strings of analyzeLinePattern, the cell looked at in the middle: first the
\* strings that O in the middle makes a five, a four open at both ends, a four
\* blocked at one end, a four with a gap, a three with a gap, an open three, a
\* blocked three, an open two, a blocked two, a stone alone, a stone shut in
Strings ==
  << <<"O", "O", "O", "O", "_", "_", "_", "_", "_">>,
     <<"_", "O", "O", "O", "_", "_", "_", "_", "_">>,
     <<"X", "O", "O", "O", "_", "_", "_", "_", "_">>,
     <<"_", "_", "O", "O", "_", "_", "O", "_", "_">>,
     <<"_", "_", "_", "O", "_", "_", "O", "_", "_">>,
     <<"_", "_", "O", "O", "_", "_", "_", "_", "_">>,
     <<"_", "X", "O", "O", "_", "_", "_", "_", "_">>,
     <<"_", "_", "_", "O", "_", "_", "_", "_", "_">>,
     <<"_", "_", "X", "O", "_", "_", "_", "_", "_">>,
     <<"_", "_", "_", "_", "_", "_", "_", "_", "_">>,
     <<"_", "_", "_", "X", "_", "X", "_", "_", "_">> >>

\* the stone a character of a string stands for, O being player's
stoneOf(ch, player) == IF ch = "O" THEN player ELSE IF ch = "X" THEN Other(player) ELSE 0

\* c is the i-th cell of the string along the k-th axis that has a in its middle
onAxis(c, a, k, i) ==
  c = <<a[1] + directions[k][1] * (i - 5), a[2] + directions[k][2] * (i - 5)>>

\* Two cells no axis of which meets an axis of the other within four steps
CellA == <<4, 4>>
CellB == <<10, 9>>

\* for each cell in scan order, the axis and the place in its string the cell
\* has among the strings through a; <<0, 0>> for a cell on none of them
placesAround(a) ==
  array([n \in 1 .. Len(ScanOrder) |->
           IF \E k \in 1 .. 4, i \in 1 .. 9 : onAxis(ScanOrder[n], a, k, i)
             THEN CHOOSE ki \in (1 .. 4) \X (1 .. 9) : onAxis(ScanOrder[n], a, ki[1], ki[2])
           ELSE <<0, 0>>])

PlacesA == placesAround(CellA)
PlacesB == placesAround(CellB)

\* the stone of the n-th cell when the strings Strings[v[k]] lie on the axes
\* that places gives
laid(places, n, v, player) ==
  IF places[n] = <<0, 0>> THEN 0
  ELSE stoneOf(Strings[v[places[n][1]]][places[n][2]], player)

\* cells on no axis of CellA or CellB and not in the row y = 5, no two of them
\* within four steps of one another on a line
Spare ==
  {n \in 1 .. Len(ScanOrder) :
     /\ (ScanOrder[n][1] + 2 * ScanOrder[n][2]) % 5 = 0
     /\ PlacesA[n] = <<0, 0>> /\ PlacesB[n] = <<0, 0>>
     /\ ScanOrder[n][2] # 5}

\* the first m cells of Spare
spare(m) == {n \in Spare : Cardinality({j \in Spare : j < n}) < m}

\* the stones seq in scan order, with stones on the cells fill of Spare that
\* make the stones of black as many as white's (more: how many more black has):
\* the board of a game black is to move in
evenedBy(seq, more, fill) ==
  [c \in Cells |->
     IF (c[1] * BOARD_SIZE + c[2] + 1) \in fill THEN (IF more > 0 THEN 2 ELSE 1)
     ELSE seq[c[1] * BOARD_SIZE + c[2] + 1]]

evenedOf(seq, more) == evenedBy(seq, more, spare(Abs(more)))

evened(seq) ==
  evenedOf(seq, Cardinality({n \in 1 .. Len(seq) : seq[n] = 1})
                  - Cardinality({n \in 1 .. Len(seq) : seq[n] = 2}))

\* the stones, in scan order, of the board with the strings of va through
\* CellA and of vb through CellB
stringsBoard(va, vb, player) ==
  array([n \in 1 .. Len(ScanOrder) |->
           IF PlacesA[n] # <<0, 0>> THEN laid(PlacesA, n, va, player)
           ELSE laid(PlacesB, n, vb, player)])

\* the board of C12: four stones of player in a row, both ends empty
fourBoard(player) ==
  array([n \in 1 .. Len(ScanOrder) |->
           IF ScanOrder[n] \in {<<5, 5>>, <<6, 5>>, <<7, 5>>, <<8, 5>>} THEN player ELSE 0])

\* the strings laid through CellA: two fours with a gap and two more strings
StringsA == {<<4, 4, s, t>> : s, t \in {1, 4, 5, 7, 11}}
              \cup {<<s, 4, t, 4>> : s, t \in {4, 10}}

\* the strings laid through CellB: a four or a three and three more strings
StringsB == {<<r, s, t, u>> : r \in {4, 3, 6}, s, t, u \in {5, 6, 11}}
              \cup {<<s, t, u, 4>> : s, t, u \in {5, 10}}

\* boards, and on each the cells evaluatePointAdvanced is called on
PointInputs ==
  {[board |-> evened(stringsBoard(va, vb, player)), cells |-> {CellA, CellB}] :
     va \in StringsA, vb \in StringsB, player \in {1}}
  \cup {[board |-> evened(fourBoard(player)), cells |-> {<<4, 5>>, <<9, 5>>, <<5, 5>>, <<7, 7>>}] :
          player \in 1 .. 2}

InitPoint ==
  /\ pendingInit = 0
  /\ pendingAi = 0
  /\ \E in \in PointInputs :
       /\ gameState = [startGame(NewGameState, "pvp", "easy", "black").gs
                         EXCEPT !.board = in.board]
       /\ call = [name |-> "board", cells |-> in.cells]
       /\ before = [name |-> "board", cells |-> in.cells]

\* evaluatePointAdvanced(c[1], c[2], player); lines: the scores of the four
\* axes in its loop.  before keeps the call before this one.
EvaluatePoint(c, player) ==
  /\ before.name = "board"
  /\ call.name = "evaluatePointAdvanced" => player = call.player
  /\ call' = [name |-> "evaluatePointAdvanced", cells |-> call.cells, x |-> c[1], y |-> c[2],
              player |-> player,
              lines |-> axisScores(gameState.board, c[1], c[2], player),
              ret |-> evaluatePointAdvanced(gameState.board, c[1], c[2], player)]
  /\ before' = call
  /\ UNCHANGED <<gameState, pendingInit, pendingAi>>

NextPoint == \E c \in call.cells, player \in 1 .. 2 : EvaluatePoint(c, player)

SpecPoint == InitPoint /\ [][NextPoint]_vars

\* ------------------------------------------------------------ analyzeLinePattern alone

\* games with stones on the edges and in the corners of the board, and the
\* game of the four stones in a row
EdgeBlacks == <<<<0, 0>>, <<0, 1>>, <<14, 3>>, <<14, 7>>, <<7, 0>>, <<6, 14>>, <<13, 13>>, <<1, 13>>>>
EdgeWhites == <<<<14, 14>>, <<14, 13>>, <<0, 5>>, <<0, 7>>, <<8, 0>>, <<7, 14>>, <<13, 1>>, <<14, 0>>>>

LineBoards ==
  { boardOf(historyOf(EdgeBlacks, EdgeWhites)),
    boardOf(historyOf(SubSeq(EdgeBlacks, 1, 5), SubSeq(EdgeWhites, 1, 4))),
    evened(fourBoard(1)) }

InitLine ==
  /\ pendingInit = 0
  /\ pendingAi = 0
  /\ \E board \in LineBoards :
       gameState = [startGame(NewGameState, "pvp", "easy", "black").gs EXCEPT !.board = board]
  /\ call = [name |-> "board"]
  /\ before = [name |-> "board"]

\* analyzeLinePattern(c[1], c[2], dx, dy, player) along the k-th axis; pattern:
\* the string it has built when it calls classifyPattern
AnalyzeLine(c, k, player) ==
  /\ call.name = "board"
  /\ call' = [name |-> "analyzeLinePattern", x |-> c[1], y |-> c[2], axis |-> k,
              player |-> player,
              pattern |-> windowOf(gameState.board, c[1], c[2], directions[k][1],
                                   directions[k][2], player),
              ret |-> analyzeLinePattern(gameState.board, c[1], c[2], directions[k][1],
                                         directions[k][2], player)]
  /\ UNCHANGED <<gameState, pendingInit, pendingAi, before>>

NextLine == \E c \in Cells, k \in 1 .. 4, player \in 1 .. 2 : AnalyzeLine(c, k, player)

SpecLine == InitLine /\ [][NextLine]_vars

\* ------------------------------------------------------------ minimax alone

\* the search is called with depth up to MaxDepth
MaxDepth == 1

\* the two cells next to the ends of the first five cells of the line along
\* the k-th axis, and then scattered cells
Ends(k) ==
  <<lineCells(k)[6],
    <<lineCells(k)[1][1] - directions[k][1], lineCells(k)[1][2] - directions[k][2]>>>>
  \o Scattered

\* the cells of the side that has lost: scattered, four of them in a row, or
\* two of them at the ends of the five
othersOf(where, k) ==
  IF where = "scattered" THEN Scattered ELSE IF where = "row" THEN InRow ELSE Ends(k)

\* The game of pve in tier diff that winner has just won with five stones
\* along the k-th axis, the other side's stones where othersOf says: placePiece
\* has placed the fifth stone.  A callback of aiMove() that is still pending
\* calls getAIMove() on such a game, and the search then runs on its board.
wonGame(diff, aiPlayer, winner, k, where) ==
  placePiece(
    [aiToMove(diff, aiPlayer,
              IF winner = 1
                THEN historyOf(SubSeq(lineCells(k), 1, 4), SubSeq(othersOf(where, k), 1, 4))
              ELSE historyOf(SubSeq(othersOf(where, k), 1, 5), SubSeq(lineCells(k), 1, 4)))
       EXCEPT !.currentPlayer = winner, !.isAiThinking = (winner = aiPlayer)],
    lineCells(k)[5][1], lineCells(k)[5][2], winner = aiPlayer).gs

\* The board of a node of the search from the game gs: the search has written
\* the AI's stone on the cells ai and the player's on the cells human, and
\* history is as it was
nodeOf(gs, ai, human) ==
  [gs EXCEPT !.board = [c \in Cells |-> IF c \in ai THEN getAIPlayer(gs)
                                        ELSE IF c \in human THEN gs.playerColor
                                        ELSE gs.board[c]]]

\* the stones the search has written at its first ply, and at its first two
SearchPlies ==
  { [ai |-> {<<7, 8>>}, human |-> {}], [ai |-> {<<8, 8>>}, human |-> {}],
    [ai |-> {<<7, 8>>}, human |-> {<<6, 6>>}], [ai |-> {<<8, 8>>}, human |-> {<<7, 9>>}] }

\* it is the AI that moves next on the board of gs, going by the stones
aiTurn(gs) ==
  Cardinality({c \in Cells : gs.board[c] = 1})
    = Cardinality({c \in Cells : gs.board[c] = 2}) + (IF gs.playerColor = 1 THEN 1 ELSE 0)

\* the games on whose boards the search is called: games that are won, games
\* in which one side has a four, and nodes of the search from the game of one
\* stone
SearchNodes ==
  { wonGame(diff, aiPlayer, winner, k, where) :
      diff \in {"hard", "hell"}, aiPlayer \in 1 .. 2, winner \in 1 .. 2, k \in 1 .. 4,
      where \in {"scattered", "row"} }
  \cup { wonGame(diff, 2, winner, 1, "ends") : diff \in {"hard", "hell"}, winner \in 1 .. 2 }
  \cup { shapePosition(diff, aiPlayer, owner, shape, k, Scattered) :
           diff \in {"hard", "hell"}, aiPlayer \in 1 .. 2, owner \in {"ai", "human"},
           shape \in Fours, k \in {1, 4} }
  \cup { nodeOf(aiToMove(diff, 2, <<[x |-> 7, y |-> 7, player |-> 1]>>), p.ai, p.human) :
           diff \in {"hard", "hell"}, p \in SearchPlies }

InitSearch ==
  /\ gameState \in SearchNodes
  /\ pendingInit = 0
  /\ pendingAi = 0
  /\ call = [name |-> "board"]
  /\ before = gameState

\* the candidates a node of the search expands: none when it returns before
\* its loop, else those of getCandidates / getCandidatesImproved(aiPlayer, limit)
expanded(gs, depth, aiPlayer, limit) ==
  IF hasImmediateWin(gs, aiPlayer).ret \/ hasImmediateWin(gs, gs.playerColor).ret \/ depth = 0
    THEN <<>>
  ELSE getCandidatesImproved(gs, aiPlayer, limit)

\* what the call name(depth, -Infinity, Infinity, isMaximizing, aiPlayer) leaves,
\* r being its result and candidates the cells it has expanded
Searched(name, depth, isMaximizing, candidates, r) ==
  /\ call' = [name |-> name, depth |-> depth, isMaximizing |-> isMaximizing,
              candidates |-> candidates, ret |-> r.ret]
  /\ gameState' = r.gs
  /\ UNCHANGED <<pendingInit, pendingAi, before>>

\* minimax(depth, -Infinity, Infinity, isMaximizing, aiPlayer) in tier Hard, on
\* a game in progress with the side to move that the stones give
Minimax(depth, isMaximizing) ==
  /\ call.name = "board"
  /\ gameState.difficulty = "hard"
  /\ gameState.gameOver \/ isMaximizing = aiTurn(gameState)
  /\ Searched("minimax", depth, isMaximizing,
              expanded(gameState, depth, getAIPlayer(gameState), HARD_SEARCH_LIMIT),
              minimax(gameState, depth, -Infinity, Infinity, isMaximizing,
                      getAIPlayer(gameState)))

\* minimaxHellImproved(depth, -Infinity, Infinity, isMaximizing, aiPlayer) in
\* tier Hell
MinimaxHell(depth, isMaximizing) ==
  /\ call.name = "board"
  /\ gameState.difficulty = "hell"
  /\ gameState.gameOver \/ isMaximizing = aiTurn(gameState)
  /\ Searched("minimaxHellImproved", depth, isMaximizing,
              expanded(gameState, depth, getAIPlayer(gameState), HELL_SEARCH_LIMIT),
              minimaxHellImproved(gameState, depth, -Infinity, Infinity, isMaximizing,
                                  getAIPlayer(gameState)))

NextSearch ==
  \/ \E depth \in 0 .. MaxDepth, isMaximizing \in BOOLEAN : Minimax(depth, isMaximizing)
  \/ \E depth \in 0 .. MaxDepth, isMaximizing \in BOOLEAN : MinimaxHell(depth, isMaximizing)

SpecSearch == InitSearch /\ [][NextSearch]_vars

\* ------------------------------------------------------------ getAIMove twice

\* The outcomes of the calls of Math.random() one getAIMove() can make, in any
\* tier, with each outcome of the search Oracles(gs) holds: the best candidate,
\* or the third
Draws(gs) ==
  {[best |-> d.best, idx |-> d.idx, search |-> o.search] :
     d \in {[best |-> TRUE, idx |-> 0], [best |-> FALSE, idx |-> 2]},
     o \in Oracles(gs)}

\* what the claim of one move for one input takes as the input of getAIMove()
inputOf(gs) ==
  [board |-> gs.board, history |-> gs.history, playerColor |-> gs.playerColor,
   difficulty |-> gs.difficulty]

\* the games getAIMove() is called twice on: an open four and the four stones
\* that one more makes two fours, of either side; the first moves; the board
\* with two cells left, on which the search is run; in tier Easy, two open
\* threes, three stones that one more makes a four, and two stones closed at
\* one end
\* The game of tier Easy in which the AI, white, has an open three along the
\* first axis and a stone beside its far end, and the player an open three
\* with a stone beside either end
threesPosition ==
  position("easy", 2, <<<<6, 5>>, <<7, 5>>, <<8, 5>>, <<9, 6>>>>,
           <<<<6, 9>>, <<7, 9>>, <<8, 9>>, <<5, 10>>, <<9, 10>>>>)

TwicePositions ==
  { shapePosition(diff, 2, owner, shape, 1, Scattered) :
      diff \in Tiers, owner \in {"ai", "human"},
      shape \in {<<"_", "O", "O", "O", "O", "_">>, <<"O", "_", "O", "_", "O", "_", "O">>} }
  \cup { aiToMove(diff, (Len(h) % 2) + 1, h) :
           diff \in Tiers, h \in {g \in Openings : Len(g) = 0 \/ g[Len(g)].x = 7} }
  \cup { aiToMove(diff, (Len(fullBut(left)) % 2) + 1, fullBut(left)) :
           diff \in Tiers, left \in {l \in Lefts : Cardinality(l) = 2} }
  \cup { threesPosition }
  \cup { shapePosition("easy", 2, "ai", shape, 1, Scattered) :
           shape \in {<<"O", "O", "_", "_", "O", "_">>, <<"X", "O", "O", "_", "_", "_">>} }

InitTwice ==
  /\ \E gs \in TwicePositions : gameState = withStats(gs, NewAiStats)
  /\ pendingInit = 0
  /\ pendingAi = 1
  /\ call = [name |-> "board"]
  /\ before = [name |-> "board"]

\* what getAIMove() leaves, r being its result.  on: the input it was called
\* on, stats: aiStats when it was called; before keeps the call before this
\* one.
GotAIMove(oracle, r) ==
  /\ call' = [name |-> "getAIMove", on |-> inputOf(gameState), stats |-> gameState.aiStats,
              best |-> oracle.best, idx |-> oracle.idx, search |-> oracle.search,
              move |-> r.ret]
  /\ gameState' = r.gs
  /\ before' = call
  /\ UNCHANGED <<pendingInit, pendingAi>>

\* getAIMove() alone, the move not placed, under the draws of oracle; the
\* second call gets the result of the same search as the first
GetAIMove(oracle) ==
  /\ before.name = "board"
  /\ call.name = "getAIMove" => oracle.search = call.search
  /\ GotAIMove(oracle, getAIMove(gameState, oracle))

NextTwice == \E oracle \in Draws(gameState) : GetAIMove(oracle)

SpecTwice == InitTwice /\ [][NextTwice]_vars

\* ------------------------------------------------------------ getCandidatesImproved on boards

\* The game in which black has four pairs of stones and white three and a
\* stone, every pair with its line open on both sides, the AI, white, to move
twosPosition(diff) ==
  position(diff, 2,
           <<<<9, 7>>, <<10, 7>>, <<9, 11>>, <<10, 11>>, <<6, 13>>, <<7, 13>>, <<13, 1>>>>,
           <<<<3, 3>>, <<4, 3>>, <<3, 7>>, <<4, 7>>, <<3, 11>>, <<4, 11>>, <<9, 3>>, <<10, 3>>>>)

CandidateNodes ==
  { shapePosition(diff, 2, owner, shape, k, Scattered) :
      diff \in {"hard", "hell"}, owner \in {"ai", "human"}, shape \in Fours \cup Threes,
      k \in {1, 3} }
  \cup { twosPosition(diff) : diff \in {"hard", "hell"} }

\* the limits getCandidatesImproved is called with in the tier diff, by the
\* root of the search and by its nodes
limitsOf(diff) ==
  IF diff = "hard" THEN {HARD_CANDIDATE_LIMIT, HARD_SEARCH_LIMIT}
  ELSE {HELL_CANDIDATE_LIMIT, HELL_SEARCH_LIMIT}

InitCandidates ==
  /\ gameState \in CandidateNodes
  /\ pendingInit = 0
  /\ pendingAi = 0
  /\ call = [name |-> "board"]
  /\ before = gameState

\* getCandidatesImproved(aiPlayer, limit)
GetCandidatesImproved(limit) ==
  /\ call.name = "board"
  /\ limit \in limitsOf(gameState.difficulty)
  /\ call' = [name |-> "getCandidatesImproved", limit |-> limit,
              ret |-> getCandidatesImproved(gameState, getAIPlayer(gameState), limit)]
  /\ UNCHANGED <<gameState, pendingInit, pendingAi, before>>

NextCandidates ==
  \E limit \in {HARD_SEARCH_LIMIT, HARD_CANDIDATE_LIMIT, HELL_CANDIDATE_LIMIT} :
     GetCandidatesImproved(limit)

SpecCandidates == InitCandidates /\ [][NextCandidates]_vars

\* ------------------------------------------------------------ the search to its end

\* the search is called with depth up to MaxFullDepth on the boards nearly full
MaxFullDepth == 3

\* the cells left empty on the boards the search is run to its end on: three
\* or four cells, as many of black as of white or one more
FullLefts ==
  { left \in SUBSET {<<7, 7>>, <<3, 4>>, <<11, 11>>, <<7, 8>>, <<2, 9>>} :
      /\ Cardinality(left) \in {3, 4}
      /\ Cardinality({c \in left : ((c[1] \div 2) + c[2]) % 2 = 0})
           - Cardinality({c \in left : ((c[1] \div 2) + c[2]) % 2 = 1}) \in {0, 1} }

\* The games on boards nearly full with the AI to move, and the nodes of the
\* search from them with the AI's stone written on the cell left that comes
\* first in scan order; aiStats as aiMove() has reset it
FullNodes ==
  { withStats(aiToMove(diff, (Len(fullBut(left)) % 2) + 1, fullBut(left)), NewAiStats) :
      diff \in {"hard", "hell"}, left \in FullLefts }
  \cup { withStats(nodeOf(aiToMove(diff, (Len(fullBut(left)) % 2) + 1, fullBut(left)),
                          {SelectSeq(ScanOrder, LAMBDA c : c \in left)[1]}, {}),
                   NewAiStats) :
           diff \in {"hard", "hell"}, left \in FullLefts }

InitFull ==
  /\ gameState \in FullNodes
  /\ pendingInit = 0
  /\ pendingAi = 0
  /\ call = [name |-> "board"]
  /\ before = gameState

\* hardMinimax(aiPlayer) when it is the AI that moves
HardMinimax ==
  /\ call.name = "board"
  /\ gameState.difficulty = "hard"
  /\ aiTurn(gameState)
  /\ Searched("hardMinimax", HARD_SEARCH_DEPTH, TRUE,
              getCandidatesImproved(gameState, getAIPlayer(gameState), HARD_CANDIDATE_LIMIT),
              hardMinimax(gameState, getAIPlayer(gameState),
                          [best |-> TRUE, idx |-> 0, search |-> 0]))

\* hellMinimaxImproved(aiPlayer) when it is the AI that moves
HellMinimaxImproved ==
  /\ call.name = "board"
  /\ gameState.difficulty = "hell"
  /\ aiTurn(gameState)
  /\ Searched("hellMinimaxImproved", HELL_SEARCH_DEPTH, TRUE,
              getCandidatesImproved(gameState, getAIPlayer(gameState), HELL_CANDIDATE_LIMIT),
              hellMinimaxImproved(gameState, getAIPlayer(gameState),
                                  [best |-> TRUE, idx |-> 0, search |-> 0]))

NextFull ==
  \/ \E depth \in 0 .. MaxFullDepth, isMaximizing \in BOOLEAN : Minimax(depth, isMaximizing)
  \/ \E depth \in 0 .. MaxFullDepth, isMaximizing \in BOOLEAN : MinimaxHell(depth, isMaximizing)
  \/ HardMinimax
  \/ HellMinimaxImproved

SpecFull == InitFull /\ [][NextFull]_vars


\* ------------------------------------------------------------ games about to end

\* gameState of a game in which the player, playerColor, is to move
playerToMove(mode, diff, playerColor, history) ==
  [board |-> boardOf(history), history |-> history, currentPlayer |-> playerColor,
   gameOver |-> FALSE, winningLine |-> <<>>, gameMode |-> mode, difficulty |-> diff,
   playerColor |-> playerColor, isAiThinking |-> FALSE]

\* four stones in a column that a stone on (7, 7) makes five
ColumnFour == <<<<7, 3>>, <<7, 4>>, <<7, 5>>, <<7, 6>>>>

\* the board of fullBut(left) with the stones of toBlack black and those of
\* toWhite white
fullWith(left, toBlack, toWhite) ==
  historyOf(SelectSeq(ScanOrder,
                      LAMBDA c : /\ c \notin left \cup toWhite
                                 /\ (c \in toBlack \/ ((c[1] \div 2) + c[2]) % 2 = 0)),
            SelectSeq(ScanOrder,
                      LAMBDA c : /\ c \notin left \cup toBlack
                                 /\ (c \in toWhite \/ ((c[1] \div 2) + c[2]) % 2 = 1)))

\* 224 moves with (7, 7) left for black: on LastDraw the 225th move makes no
\* five, on LastFive it makes five in the column of (7, 7); neither holds five
LastDraw == fullWith({<<7, 7>>}, {}, {})
LastFive == fullWith({<<7, 7>>}, {<<7, 6>>, <<7, 8>>}, {<<0, 0>>, <<0, 2>>})

\* the games: gs, and ai, the number of callbacks of aiMove() that are pending.
\* With the player to move the pending callback is one whose timer was set in
\* the game before: init() does not cancel it.
OverGames ==
  { [gs |-> playerToMove(mode, diff, 1, historyOf(ColumnFour, SubSeq(Scattered, 1, 4))),
     ai |-> ai] : mode \in {"pvp", "pve"}, diff \in {"easy", "hard"}, ai \in 0 .. 1 }
  \cup { [gs |-> position(diff, 1, ColumnFour, SubSeq(Scattered, 1, 4)), ai |-> 1] :
           diff \in {"easy", "hard"} }
  \cup { [gs |-> playerToMove(mode, "medium", 1, history), ai |-> ai] :
           mode \in {"pvp", "pve"}, history \in {LastDraw, LastFive}, ai \in 0 .. 1 }
  \cup { [gs |-> aiToMove("medium", 1, history), ai |-> 1] : history \in {LastDraw, LastFive} }

\* the cells clicked: the cell that ends each of the games, and cells that are
\* empty in the games of eight moves
OverCells == {<<7, 7>>, <<7, 2>>, <<0, 0>>}

\* the moves made in a game of eight moves
MaxOver == 2

InitOver ==
  \E g \in OverGames :
    /\ gameState = g.gs
    /\ pendingInit = 0
    /\ pendingAi = g.ai
    /\ call = Called("load", null, FALSE, g.gs)
    /\ before = g.gs

\* the listener of the canvas for a click on cell c: it returns when
\* canPlayerMove() is false and calls placePiece otherwise
CanvasClick(c) ==
  IF canPlayerMove(gameState)
    THEN Clicked(c, placePiece(gameState, c[1], c[2], FALSE))
  ELSE /\ call' = Called("click", Move(c[1], c[2]), FALSE, gameState)
       /\ before' = gameState
       /\ UNCHANGED <<gameState, pendingInit, pendingAi>>

\* the game goes on until it is restarted, and for MaxOver moves; no move of
\* the games is taken back
Playing == call.name # "restartGame"
Movable == gameState.gameOver \/ Len(gameState.history) < Len(ColumnFour) * 2 + MaxOver
           \/ Len(gameState.history) >= Len(LastDraw)
Undoable == gameState.gameOver \/ Len(gameState.history) = Len(ColumnFour) * 2 + MaxOver

NextOver ==
  \/ \E c \in OverCells : Playing /\ Movable /\ CanvasClick(c)
  \/ Playing /\ Undoable /\ Undo
  \/ Playing /\ Movable /\ AiCallback(BOARD_SIZE * BOARD_SIZE + 1)
  \/ Playing /\ RestartGame

SpecOver == InitOver /\ [][NextOver]_vars
\* ------------------------------------------------------------ properties

\* the stones of player met from the cell next to (x, y) on, by steps of (dx, dy)
RECURSIVE extent(_, _, _, _, _, _)
extent(board, x, y, dx, dy, player) ==
  IF InBoard(x + dx, y + dy) /\ board[<<x + dx, y + dy>>] = player
    THEN 1 + extent(board, x + dx, y + dy, dx, dy, player)
  ELSE 0

\* the length of the longest unbroken line of player's stones through (x, y)
\* along the axis d, (x, y) counted as one of them
runThrough(board, x, y, d, player) ==
  1 + extent(board, x, y, d[1], d[2], player) + extent(board, x, y, -d[1], -d[2], player)

\* a stone of player on (x, y) is in a line of five or more
fiveThrough(board, x, y, player) ==
  \E k \in 1 .. 4 : runThrough(board, x, y, directions[k], player) >= 5

\* C4: checkWin(x, y, player), called with a stone of player on (x, y), returns
\* true exactly when on one of the four axes the unbroken line of player's
\* stones through (x, y) is five or more long, six and more included, whichever
\* cell of the line (x, y) is.
C4_CheckWinIffRunOfFive ==
  call.name = "checkWin" =>
    (call.ok <=> fiveThrough(before.board, call.move.x, call.move.y,
                             before.board[<<call.move.x, call.move.y>>]))

\* checkWin has returned true at the end of a line of six
C4_Witness ==
  /\ call.name = "checkWin"
  /\ call.ok
  /\ \E k \in 1 .. 4 :
       /\ runThrough(before.board, call.move.x, call.move.y, directions[k],
                     before.board[<<call.move.x, call.move.y>>]) = 6
       /\ extent(before.board, call.move.x, call.move.y, directions[k][1], directions[k][2],
                 before.board[<<call.move.x, call.move.y>>]) = 0

\* C9: for every 9-character window with an empty centre, classifyPattern
\* gives the window and the window reversed the same score.
C9_ClassifyReversed ==
  (call.name = "classifyPattern" /\ call.pattern[5] = "_") => call.ret = call.reversed

\* a window that is not its own reverse has been scored as a four
C9_Witness ==
  /\ call.name = "classifyPattern"
  /\ call.pattern = <<"X", "O", "O", "O", "_", "_", "X", "_", "O">>
  /\ call.ret = OPEN_FOUR
  /\ call.reversed = OPEN_FOUR

\* C5: placePiece(x, y) on a cell that is not empty returns false and leaves
\* board, history, currentPlayer, gameOver and winningLine as they were, called
\* by the click handler or by the AI callback.
C5_OccupiedCellRejected ==
  (/\ call.name \in {"placePiece", "placePiece by the AI"}
   /\ before.board[<<call.move.x, call.move.y>>] # 0)
  => /\ ~call.ok
     /\ gameState.board = before.board
     /\ gameState.history = before.history
     /\ gameState.currentPlayer = before.currentPlayer
     /\ gameState.gameOver = before.gameOver
     /\ gameState.winningLine = before.winningLine

\* the AI callback's placePiece has been refused on a stone, in a game that is
\* on, and so has the click handler's at the player's turn
C5_Witness ==
  /\ call.name \in {"placePiece", "placePiece by the AI"}
  /\ before.board[<<call.move.x, call.move.y>>] # 0
  /\ ~before.gameOver
  /\ (call.name = "placePiece" => canPlayerMove(before))
  /\ ~call.ok

\* C6: between events the stones on the board are as many as the moves of
\* history, every move of history has its player's stone on its cell, and no
\* two moves of history are on one cell.
C6_BoardMatchesHistory ==
  IF gameState.board = <<>> THEN gameState.history = <<>>
  ELSE /\ Cardinality({c \in Cells : gameState.board[c] # 0}) = Len(gameState.history)
       /\ \A k \in 1 .. Len(gameState.history) :
            gameState.board[<<gameState.history[k].x, gameState.history[k].y>>]
              = gameState.history[k].player
       /\ \A j, k \in 1 .. Len(gameState.history) :
            (gameState.history[j].x = gameState.history[k].x
             /\ gameState.history[j].y = gameState.history[k].y) => j = k

\* moves have been placed by the player and by the AI, and taken back
C6_Witness ==
  /\ call.name = "undo"
  /\ Len(before.history) = 2
  /\ Len(gameState.history) = 0
  /\ gameState.board = EmptyBoard

\* undo() went past its first line: there were moves, the game was on, the AI
\* was not thinking
undoActed == call.name = "undo" /\ Len(before.history) > 0 /\ ~before.gameOver
             /\ ~before.isAiThinking

\* C7: undo() takes moves from the end of history, one in pvp and two in pve
\* when there are two, empties the cells of the moves it took and no other,
\* keeps the rest of history, and gives the turn to the player of the earliest
\* move it took; in pvp, after a placePiece that did not end the game, undo()
\* gives back the board, the history and the turn placePiece found.
C7_UndoTakesBackMoves ==
  /\ undoActed =>
       /\ Len(gameState.history) < Len(before.history)
       /\ before.gameMode = "pvp" => Len(gameState.history) = Len(before.history) - 1
       /\ (before.gameMode = "pve" /\ Len(before.history) >= 2)
            => Len(gameState.history) = Len(before.history) - 2
       /\ gameState.history = SubSeq(before.history, 1, Len(gameState.history))
       /\ \A c \in Cells :
            gameState.board[c] =
              IF \E k \in (Len(gameState.history) + 1) .. Len(before.history) :
                   c = <<before.history[k].x, before.history[k].y>>
                THEN 0 ELSE before.board[c]
       /\ gameState.currentPlayer = before.history[Len(gameState.history) + 1].player
  /\ (call.name = "placePiece" /\ call.ok /\ gameState.gameMode = "pvp" /\ ~gameState.gameOver)
       => /\ undo(gameState).board = before.board
          /\ undo(gameState).history = before.history
          /\ undo(gameState).currentPlayer = before.currentPlayer

\* undo() has taken back the player's move and the AI's answer
C7_Witness ==
  /\ undoActed
  /\ before.gameMode = "pve"
  /\ Len(before.history) = 2
  /\ before.history[2].player # before.playerColor
  /\ gameState.history = <<>>
  /\ gameState.currentPlayer = before.playerColor

\* C10: on an empty board, with no move in history, getAIMove() returns (7,7)
\* in every tier.
C10_EmptyBoardCentre ==
  (call.name = "getAIMove" /\ before.history = <<>> /\ before.board = EmptyBoard)
    => call.move = Move(7, 7)

\* the AI of each tier has opened a game on the centre
C10_Witness ==
  /\ call.name = "getAIMove"
  /\ before.history = <<>>
  /\ before.board = EmptyBoard
  /\ before.difficulty = "hard"
  /\ call.move = Move(7, 7)
  /\ call.ok
  /\ gameState.board[<<7, 7>>] = 1


\* the empty cells on which a stone of player is in a line of five or more
Wins(board, player) ==
  {c \in Cells : board[c] = 0 /\ fiveThrough([board EXCEPT ![c] = player], c[1], c[2], player)}

\* getAIMove() has returned, called in a game that was on
aiMoved == call.name = "getAIMove" /\ ~before.gameOver

\* C1: in every tier, on a board of a game that is on with an empty cell,
\* getAIMove() returns a cell of the board that is empty; (7,7) too is
\* returned only when it is empty.
C1_MoveIsEmptyCell ==
  (aiMoved /\ emptyCount(before.board) > 0)
    => /\ InBoard(call.move.x, call.move.y)
       /\ before.board[<<call.move.x, call.move.y>>] = 0

\* the hell AI has placed its stone on a board with (7,7) taken
C1_Witness ==
  /\ aiMoved
  /\ before.difficulty = "hell"
  /\ before.board[<<7, 7>>] # 0
  /\ emptyCount(before.board) > 200
  /\ call.ok
  /\ gameState.board[<<call.move.x, call.move.y>>] = getAIPlayer(before)

\* C2: when the AI's colour has an empty cell that completes five or more,
\* getAIMove() returns such a cell, in every tier.
C2_TakesItsFive ==
  (aiMoved /\ Wins(before.board, getAIPlayer(before)) # {})
    => <<call.move.x, call.move.y>> \in Wins(before.board, getAIPlayer(before))

\* the AI has completed its line, a line of six, when the player too was one
\* stone from five
C2_Witness ==
  /\ aiMoved
  /\ Wins(before.board, getAIPlayer(before)) # {}
  /\ Wins(before.board, before.playerColor) # {}
  /\ <<call.move.x, call.move.y>> \in Wins(before.board, getAIPlayer(before))
  /\ gameState.gameOver

\* C3: when the AI has no cell that completes five and the opponent has one,
\* getAIMove() returns a cell that completes the opponent's five, in every
\* tier, whatever else the AI could do.
C3_BlocksTheFive ==
  (/\ aiMoved
   /\ Wins(before.board, getAIPlayer(before)) = {}
   /\ Wins(before.board, before.playerColor) # {})
    => <<call.move.x, call.move.y>> \in Wins(before.board, before.playerColor)

\* the hard AI has blocked when it had an open four of its own to make
C3_Witness ==
  /\ aiMoved
  /\ before.difficulty = "hard"
  /\ Wins(before.board, getAIPlayer(before)) = {}
  /\ <<call.move.x, call.move.y>> \in Wins(before.board, before.playerColor)
  /\ findThreat(before.board, getAIPlayer(before), LIVE_FOUR) # null

\* C8: getAIMove() returns with board, history, currentPlayer and gameOver as
\* it found them, on every path.
C8_SearchRestoresState ==
  call.name = "getAIMove"
    => /\ call.mid.board = before.board
       /\ call.mid.history = before.history
       /\ call.mid.currentPlayer = before.currentPlayer
       /\ call.mid.gameOver = before.gameOver

\* the hell AI has returned the move of searchVCFImproved, a search that
\* placed stones, after its loop over the defences had ended by break
C8_Witness ==
  /\ call.name = "getAIMove"
  /\ before.difficulty = "hell"
  /\ Len(before.history) > 2
  /\ winBlockFour(before, getAIPlayer(before)).ret = null
  /\ Len(findAllRushFoursImproved(before.board, getAIPlayer(before))) > 1
  /\ searchVCFImproved(before, getAIPlayer(before), HELL_VCF_DEPTH).ret = call.move
  /\ call.mid.board = before.board
  /\ call.ok

\* the hell AI, second to play, has answered the first move of the game
answeredFirst ==
  /\ aiMoved
  /\ before.difficulty = "hell"
  /\ Len(before.history) = 1
  /\ before.history[1].player = before.playerColor

\* the first moves OPENING_BOOK.responses has an answer to
BookKeys == {<<7, 7>>, <<6, 7>>, <<8, 7>>, <<7, 6>>, <<7, 8>>}

\* the empty cells of the 5x5 centre that touch a stone
centreTouching(board) ==
  {c \in Cells : /\ Abs(c[1] - 7) <= 2 /\ Abs(c[2] - 7) <= 2 /\ board[c] = 0
                 /\ \E e \in Cells : /\ board[e] # 0 /\ Abs(e[1] - c[1]) <= 1
                                     /\ Abs(e[2] - c[2]) <= 1}

\* C11 as stated: the hell AI answers every first move, (3,3) too, with an
\* entry of the opening-response table.
C11_Original ==
  answeredFirst
    => /\ <<before.history[1].x, before.history[1].y>> \in BookKeys
       /\ call.move = bookMove(before, 1)

\* C11, amended: the hell AI answers the first move (7,7) with (8,8) and the
\* first moves (6,7), (8,7), (7,6), (7,8) with (7,7), the entries of the table;
\* to any other first move the table has no entry and the move is
\* findBestOpeningMove's, an empty cell of the 5x5 centre that touches the
\* stone, or (7,7) when there is none, as after (3,3).
C11_BookThenOpeningMove ==
  answeredFirst
    => IF <<before.history[1].x, before.history[1].y>> = <<7, 7>>
         THEN call.move = Move(8, 8)
       ELSE IF <<before.history[1].x, before.history[1].y>> \in BookKeys
         THEN call.move = Move(7, 7)
       ELSE IF centreTouching(before.board) = {} THEN call.move = Move(7, 7)
       ELSE <<call.move.x, call.move.y>> \in centreTouching(before.board)

\* the hell AI has answered the first move (3,3) with (7,7), and placed it
C11_Witness ==
  /\ answeredFirst
  /\ before.board[<<3, 3>>] = before.playerColor
  /\ call.move = Move(7, 7)
  /\ call.ok

\* evaluatePointAdvanced has been called for the player of the four stones
\* (5,5), (6,5), (7,5), (8,5) on an end of their line, (4,5) or (9,5), with the
\* other end empty
endOfFour ==
  /\ call.name = "evaluatePointAdvanced"
  /\ <<call.x, call.y>> \in {<<4, 5>>, <<9, 5>>}
  /\ \A c \in {<<5, 5>>, <<6, 5>>, <<7, 5>>, <<8, 5>>} : gameState.board[c] = call.player
  /\ gameState.board[<<4, 5>>] = 0
  /\ gameState.board[<<9, 5>>] = 0

\* C12 as stated: on either end of the four, evaluatePointAdvanced gives the
\* threat level of an open four and the horizontal line the score of an open
\* four, and a total above SIMPLE_FOUR.
C12_Original ==
  endOfFour
    => /\ call.ret.threatLevel = 6
       /\ call.lines[1] = OPEN_FOUR
       /\ call.ret.score > SIMPLE_FOUR

\* C12, amended: on either end of the four the stone completes five:
\* evaluatePointAdvanced gives the threat level of a five (7) and the horizontal
\* line the score FIVE, and a total above SIMPLE_FOUR.
C12_EndOfFourIsFive ==
  endOfFour
    => /\ call.ret.threatLevel = 7
       /\ call.lines[1] = FIVE
       /\ call.ret.score > SIMPLE_FOUR

\* both ends of the four have been scored, (9,5) last
C12_Witness ==
  /\ endOfFour
  /\ before.name = "evaluatePointAdvanced"
  /\ <<before.x, before.y>> = <<4, 5>>
  /\ <<call.x, call.y>> = <<9, 5>>
  /\ call.ret.score >= FIVE

\* the axes of the last call that evaluatePointAdvanced counts as simple fours
simpleFours(c) == {k \in 1 .. 4 : c.lines[k] >= SIMPLE_FOUR /\ c.lines[k] < OPEN_FOUR}

\* two empty cells have been scored for one player, A and then B
scoredTwo ==
  /\ call.name = "evaluatePointAdvanced"
  /\ before.name = "evaluatePointAdvanced"
  /\ call.player = before.player
  /\ gameState.board[<<call.x, call.y>>] = 0
  /\ gameState.board[<<before.x, before.y>>] = 0

\* C13: when two or more axes of A are simple fours, and one axis of B is a
\* simple four and none is more, A scores more than B whatever the other axes
\* are.
C13_TwoFoursBeatOne ==
  (/\ scoredTwo
   /\ Cardinality(simpleFours(before)) >= 2
   /\ Cardinality(simpleFours(call)) = 1
   /\ \A k \in 1 .. 4 : call.lines[k] < OPEN_FOUR)
  => before.ret.score > call.ret.score

\* A with two simple fours and nothing else has been scored against B with
\* one simple four and a three with a gap on every other axis
C13_Witness ==
  /\ scoredTwo
  /\ Cardinality(simpleFours(before)) = 2
  /\ \A k \in 1 .. 4 : before.lines[k] \in {0, SIMPLE_FOUR}
  /\ Cardinality(simpleFours(call)) = 1
  /\ Cardinality({k \in 1 .. 4 : call.lines[k] = BROKEN_THREE}) = 3
  /\ before.ret.score > call.ret.score

\* the board with a border four cells wide of stones of the opponent of player
\* around it
walled(board, player) ==
  [c \in (-4 .. BOARD_SIZE + 3) \X (-4 .. BOARD_SIZE + 3) |->
     IF c \in Cells THEN board[c] ELSE Other(player)]

\* the string of the nine cells of the walled board along the axis of the last
\* call, the cell of the call in the middle
walledString ==
  [i \in 1 .. 9 |->
     LET stone == walled(gameState.board, call.player)[
                    <<call.x + directions[call.axis][1] * (i - 5),
                      call.y + directions[call.axis][2] * (i - 5)>>]
     IN IF stone = call.player THEN "O" ELSE IF stone = 0 THEN "_" ELSE "X"]

\* C14: analyzeLinePattern classifies a string that runs off the board as it
\* would were every cell off the board a stone of the opponent: no such cell
\* is taken for empty, none is read from the opposite edge.
C14_OffBoardBlocks ==
  call.name = "analyzeLinePattern"
    => /\ call.pattern = walledString
       /\ call.ret = classifyPattern(walledString, 4)

\* (0,2) has been scored along the edge x = 0 for black, whose stones (0,0)
\* and (0,1) end at the corner: a blocked three, not an open one
C14_Witness ==
  /\ call.name = "analyzeLinePattern"
  /\ <<call.x, call.y>> = <<0, 2>>
  /\ call.axis = 2
  /\ call.player = 1
  /\ call.pattern = <<"X", "X", "O", "O", "_", "_", "_", "X", "_">>
  /\ call.ret = SIMPLE_THREE

\* the string of the last call with the stone on its middle
stoneOnCentre == [call.pattern EXCEPT ![5] = "O"]

\* the first and the last place of the unbroken line of O through the middle
\* of stoneOnCentre
firstOfRun == CHOOSE lo \in 1 .. 5 : /\ \A i \in lo .. 5 : stoneOnCentre[i] = "O"
                                     /\ (lo = 1 \/ stoneOnCentre[lo - 1] # "O")
lastOfRun == CHOOSE hi \in 5 .. 9 : /\ \A i \in 5 .. hi : stoneOnCentre[i] = "O"
                                    /\ (hi = 9 \/ stoneOnCentre[hi + 1] # "O")

\* the stone on the middle makes a line of exactly four, one end of which is
\* empty and the other a stone of the opponent or the edge
blockedFour ==
  /\ call.name = "classifyPattern"
  /\ call.pattern[5] = "_"
  /\ lastOfRun - firstOfRun = 3
  /\ {stoneOnCentre[firstOfRun - 1], stoneOnCentre[lastOfRun + 1]} = {"_", "X"}

\* C15: a stone that makes exactly four in a row with one end empty and the
\* other blocked is scored SIMPLE_FOUR, and OPEN_FOUR is the score only of
\* strings with a four both ends of which are empty.
C15_BlockedFourIsSimpleFour ==
  /\ blockedFour => call.ret = SIMPLE_FOUR
  /\ (call.name = "classifyPattern" /\ call.pattern[5] = "_" /\ call.ret = OPEN_FOUR)
       => includes(stoneOnCentre, <<"_", "O", "O", "O", "O", "_">>)


\* the sides that have five stones in a row, and no more, on the board of the
\* last call
fiveOf(board) ==
  {p \in 1 .. 2 : \E c \in Cells : board[c] = p /\ checkWinWithoutState(board, c[1], c[2], p)}

\* C16: at a node of the search whose board holds five in a row of one side,
\* minimax and minimaxHellImproved return WIN_SCORE + depth when the five is
\* the AI's and -(WIN_SCORE + depth) when it is the opponent's, and not the
\* static evaluation of the board.
C16_FiveIsWinScore ==
  call.name \in {"minimax", "minimaxHellImproved"} =>
    /\ getAIPlayer(gameState) \in fiveOf(gameState.board)
         => call.ret = (WIN_SCORE + call.depth) * 10
    /\ gameState.playerColor \in fiveOf(gameState.board)
         => call.ret = (-WIN_SCORE - call.depth) * 10

\* getAIMove() has been called twice on the same board, history, colours and
\* tier
calledTwice ==
  /\ call.name = "getAIMove"
  /\ before.name = "getAIMove"
  /\ call.on = before.on

C19_AiPlacesOwnColour ==
  (call.name = "getAIMove" /\ call.ok) =>
    /\ before.gameMode = "pve"
    /\ before.currentPlayer # before.playerColor
    /\ gameState.history[Len(gameState.history)].player = getAIPlayer(gameState)

\* C20: in a game of pve that is not over, whenever the player cannot move (it
\* is the AI's turn, or the AI is thinking) a move of the AI is pending: a
\* timer of init() or of aiMove() is set.  No placements and undos leave the
\* game waiting for a move nobody will make.
C20_AiTurnHasMovePending ==
  (/\ gameState.board # <<>>
   /\ gameState.gameMode = "pve"
   /\ ~gameState.gameOver
   /\ ~canPlayerMove(gameState)) => pendingInit + pendingAi > 0

\* the cells of candidates, in their order
cellsOf(candidates) == array([k \in 1 .. Len(candidates) |-> cellOf(candidates, k)])

\* the first limit candidates when mover is the side that attacks and other
\* the side defended against
rankedFor(gs, mover, other, limit) ==
  sortedPrefix(candidatesOf(gs.board, liveCells(gs.board), mover, other), limit)

\* the last call is a node of the search that has run its loop
expanding ==
  /\ call.name \in {"minimax", "minimaxHellImproved"}
  /\ Len(call.candidates) > 0

\* C21: at every ply of the search the cells expanded are the first
\* SEARCH_LIMIT candidates ranked for the side to move: attack is the AI's
\* score and defense the opponent's on a maximizing ply, attack the opponent's
\* and defense the AI's on a minimizing ply.
C21_RankedForSideToMove ==
  expanding =>
    cellsOf(call.candidates)
      = cellsOf(IF call.isMaximizing
                  THEN rankedFor(gameState, getAIPlayer(gameState), gameState.playerColor,
                                 Len(call.candidates))
                ELSE rankedFor(gameState, gameState.playerColor, getAIPlayer(gameState),
                               Len(call.candidates)))

\* a stone of player on the cell c makes two simple fours, a four and a three,
\* or two open threes
compoundAt(board, c, player) ==
  \E scan \in {"findDoubleRushFour", "findFourThreeCombo", "findDoubleThree"} :
     compound(scan, lineScores(board, c[1], c[2], player))

\* the AI has moved in tier Hard or Hell when none of the first four steps
\* applied and a cell made a compound shape for it
compoundOpen ==
  /\ aiMoved
  /\ before.difficulty \in {"hard", "hell"}
  /\ winBlockFour(before, getAIPlayer(before)).ret = null
  /\ \E scan \in {"findDoubleRushFour", "findFourThreeCombo", "findDoubleThree"} :
        findCompound(scan, before.board, getAIPlayer(before)) # null

\* C22: in the tiers Hard and Hell, when there is no five to make or to block
\* and no open four of either side, and a cell makes two simple fours, a four
\* and a three or two open threes for the AI, the move returned is a cell that
\* makes such a shape for the AI.
C22_PlaysCompound ==
  compoundOpen => compoundAt(before.board, <<call.move.x, call.move.y>>, getAIPlayer(before))

\* the runs of five cells of the board along the four axes
FiveRuns ==
  { w \in { [i \in 1 .. 5 |-> <<c[1] + (i - 1) * directions[k][1],
                                c[2] + (i - 1) * directions[k][2]>>] :
              c \in Cells, k \in 1 .. 4 } : w[5] \in Cells }

\* the empty cells of the runs of five in which player has n stones at least
\* and the other side none
cellsShort(board, player, n) ==
  { c \in UNION { {w[i] : i \in 1 .. 5} :
                    w \in { v \in FiveRuns :
                              /\ \A i \in 1 .. 5 : board[v[i]] # Other(player)
                              /\ Cardinality({i \in 1 .. 5 : board[v[i]] = player}) >= n } } :
      board[c] = 0 }

\* A stone of player on the cell c wins by force within depth moves of
\* player: it completes five, or it leaves player a cell that completes five
\* and the other side none, and whichever such cell the other side takes,
\* player has a move that again wins by force.
RECURSIVE forcedWin(_, _, _, _)
RECURSIVE forcedAfter(_, _, _)
forcedWin(board, player, c, depth) ==
  /\ depth > 0
  /\ \/ c \in cellsShort(board, player, 4)
     \/ forcedAfter([board EXCEPT ![c] = player], player, depth)

forcedAfter(placed, player, depth) ==
  /\ cellsShort(placed, player, 4) # {}
  /\ cellsShort(placed, Other(player), 4) = {}
  /\ \A d \in cellsShort(placed, player, 4) :
        \E m \in cellsShort([placed EXCEPT ![d] = Other(player)], player, 3) :
           forcedWin([placed EXCEPT ![d] = Other(player)], player, m, depth - 1)

\* the hell AI has returned the move of searchVCFImproved
vcfMoved ==
  /\ aiMoved
  /\ before.difficulty = "hell"
  /\ Len(before.history) > 1
  /\ winBlockFour(before, getAIPlayer(before)).ret = null
  /\ \A player \in 1 .. 2 :
        \A scan \in {"findDoubleRushFour", "findFourThreeCombo", "findDoubleThree"} :
           findCompound(scan, before.board, player) = null
  /\ searchVCFImproved(before, getAIPlayer(before), HELL_VCF_DEPTH).ret # null

\* C23: a move returned by the VCF search wins by force: it makes a four, and
\* whichever cell the other side takes to stop the five, the AI again has a
\* four that wins by force, until it completes five within the depth bound;
\* the other side is never left a cell that completes a five of its own.
C23_VcfMoveWinsByForce ==
  vcfMoved => forcedWin(before.board, getAIPlayer(before),
                        <<call.move.x, call.move.y>>, HELL_VCF_DEPTH)

\* the empty cells with a stone near whose attack or defence, as
\* getCandidatesImproved scores them, is that of an open three at least
forcedCells(gs) ==
  { c \in Cells :
      /\ gs.board[c] = 0
      /\ hasNeighbor(gs.board, c[1], c[2], 2)
      /\ \/ evaluatePoint(gs.board, c[1], c[2], getAIPlayer(gs)) >= LIVE_THREE
         \/ evaluatePoint(gs.board, c[1], c[2], gs.playerColor) >= LIVE_THREE }

gotCandidates == call.name = "getCandidatesImproved"

\* the cells of the slice returned
keptCells == { cellOf(call.ret, k) : k \in 1 .. Len(call.ret) }

\* C24 as stated: every empty cell with a stone near whose attack or defence
\* is that of an open three at least is in the slice getCandidatesImproved
\* returns, for the limits 12, 15 and 18.
C24_ForcedCellsKept ==
  gotCandidates => forcedCells(gameState) \subseteq keptCells

\* C24: every empty cell with a stone near whose attack or defence is that of
\* an open three at least is in the slice getCandidatesImproved returns, for
\* the limits 12, 15 and 18, unless the slice holds limit cells that are all
\* such cells.
C24_ForcedCellsFirst ==
  gotCandidates
    => \/ forcedCells(gameState) \subseteq keptCells
       \/ /\ Len(call.ret) = call.limit
          /\ keptCells \subseteq forcedCells(gameState)

\* the slice has left out cells and holds every cell that reaches an open three
C24_Witness ==
  /\ gotCandidates
  /\ Len(liveCells(gameState.board)) > call.limit
  /\ forcedCells(gameState) # {}
  /\ forcedCells(gameState) \subseteq keptCells
  /\ ~(keptCells \subseteq forcedCells(gameState))

\* the score getEasyMove gives the cell c of the board getAIMove() was called
\* on: attack and defence, weighted alike
easyScore(c) ==
  evaluatePoint(call.on.board, c[1], c[2], Other(call.on.playerColor))
    + evaluatePoint(call.on.board, c[1], c[2], call.on.playerColor)

\* the empty cells with a stone within two of the board getAIMove() was called on
easyCells ==
  { c \in Cells : call.on.board[c] = 0 /\ hasNeighbor(call.on.board, c[1], c[2], 2) }

\* the cells that score higher than the move, h being the move's score
scoringOver(h) == { c \in easyCells : easyScore(c) > h }

\* an empty cell reaches the score of an open four for player
openFourCell(player) ==
  \E c \in easyCells : evaluatePoint(call.on.board, c[1], c[2], player) >= LIVE_FOUR

\* getAIMove() has returned in tier Easy, called on a board with candidates on
\* which neither side has a cell that completes five
easyMoved ==
  /\ call.name = "getAIMove"
  /\ call.on.difficulty = "easy"
  /\ easyCells # {}
  /\ \A player \in 1 .. 2 : cellsShort(call.on.board, player, 4) = {}

\* the move is among the three highest-scoring candidates, and the highest
\* when Math.random() was below 0.8
easyTopThree ==
  /\ <<call.move.x, call.move.y>> \in easyCells
  /\ Cardinality(scoringOver(easyScore(<<call.move.x, call.move.y>>))) < 3
  /\ call.best => scoringOver(easyScore(<<call.move.x, call.move.y>>)) = {}

\* C25 as stated: tier Easy has no open-four steps; whenever neither side has
\* an immediate five the move is one of the three candidates that score
\* highest, the highest unless the draw selects from the top three.
C25_EasyTopThree == easyMoved => easyTopThree

\* C25: tier Easy has the open-four steps too; whenever neither side has an
\* immediate five and no cell reaches the score of an open four for either
\* side, the move is one of the three candidates that score highest, the
\* highest unless the draw selects from the top three.
C25_EasyTopThreeAfterFours ==
  (easyMoved /\ ~openFourCell(1) /\ ~openFourCell(2)) => easyTopThree

\* the draw has selected from the top three a candidate that is not the highest
C25_Witness ==
  /\ easyMoved
  /\ ~openFourCell(1) /\ ~openFourCell(2)
  /\ ~call.best
  /\ scoringOver(easyScore(<<call.move.x, call.move.y>>)) # {}
  /\ easyTopThree

\* the largest and the smallest of the values vs
largest(vs) == CHOOSE v \in vs : \A w \in vs : w <= v
smallest(vs) == CHOOSE v \in vs : \A w \in vs : v <= w

\* what the node of the search name evaluates when it expands nothing, and the
\* candidates it expands
leafValue(name, gs, aiPlayer) ==
  IF name = "minimax" THEN evaluateBoard(gs, aiPlayer) ELSE evaluateBoardHell(gs, aiPlayer)

expandedBy(name, gs, aiPlayer) ==
  IF name = "minimax" THEN getCandidates(gs, aiPlayer, HARD_SEARCH_LIMIT)
  ELSE getCandidatesImproved(gs, aiPlayer, HELL_SEARCH_LIMIT)

\* The value of the recursion of minimax / minimaxHellImproved without its
\* breaks: the maximum, or the minimum, over every candidate.  exactOver: the
\* value when the node expands candidates.  Scores are times 10.
RECURSIVE exactValue(_, _, _, _, _)
RECURSIVE exactOver(_, _, _, _, _, _)
exactValue(name, gs, depth, isMaximizing, aiPlayer) ==
  IF hasImmediateWin(gs, aiPlayer).ret THEN (WIN_SCORE + depth) * 10
  ELSE IF hasImmediateWin(gs, gs.playerColor).ret THEN (-WIN_SCORE - depth) * 10
  ELSE IF depth = 0 THEN leafValue(name, gs, aiPlayer)
  ELSE exactOver(name, gs, depth, isMaximizing, aiPlayer, expandedBy(name, gs, aiPlayer))

exactOver(name, gs, depth, isMaximizing, aiPlayer, candidates) ==
  IF Len(candidates) = 0 THEN leafValue(name, gs, aiPlayer)
  ELSE IF isMaximizing
    THEN largest({ exactValue(name, [gs EXCEPT !.board[cellOf(candidates, k)] = aiPlayer],
                              depth - 1, FALSE, aiPlayer) : k \in 1 .. Len(candidates) })
  ELSE smallest({ exactValue(name, [gs EXCEPT !.board[cellOf(candidates, k)] = gs.playerColor],
                             depth - 1, TRUE, aiPlayer) : k \in 1 .. Len(candidates) })

\* the value without breaks of the k-th root candidate of the search whose
\* recursion is name
rootValue(name, k) ==
  exactValue(name, [before EXCEPT !.board[cellOf(call.candidates, k)] = getAIPlayer(before)],
             call.depth - 1, FALSE, getAIPlayer(before))

\* the number of nodes the recursion without breaks visits
RECURSIVE exactNodes(_, _, _, _, _)
RECURSIVE exactNodesOver(_, _, _, _, _, _, _)
exactNodes(name, gs, depth, isMaximizing, aiPlayer) ==
  IF \/ hasImmediateWin(gs, aiPlayer).ret
     \/ hasImmediateWin(gs, gs.playerColor).ret
     \/ depth = 0
    THEN 1
  ELSE 1 + exactNodesOver(name, gs, depth, isMaximizing, aiPlayer,
                          expandedBy(name, gs, aiPlayer), 1)

exactNodesOver(name, gs, depth, isMaximizing, aiPlayer, candidates, k) ==
  IF k > Len(candidates) THEN 0
  ELSE exactNodes(name, [gs EXCEPT !.board[cellOf(candidates, k)] =
                                     IF isMaximizing THEN aiPlayer ELSE gs.playerColor],
                  depth - 1, ~isMaximizing, aiPlayer)
       + exactNodesOver(name, gs, depth, isMaximizing, aiPlayer, candidates, k + 1)

\* C26: minimax / minimaxHellImproved called with the bounds -Infinity and
\* Infinity returns the value of the same recursion without the breaks at
\* beta <= alpha, and hardMinimax / hellMinimaxImproved return the first
\* candidate whose value without breaks is the largest.
C26_PruningKeepsValue ==
  /\ call.name \in {"minimax", "minimaxHellImproved"}
       => call.ret = exactValue(call.name, before, call.depth, call.isMaximizing,
                                getAIPlayer(before))
  /\ (call.name \in {"hardMinimax", "hellMinimaxImproved"} /\ Len(call.candidates) > 0)
       => \E k \in 1 .. Len(call.candidates) :
             /\ call.ret = Move(call.candidates[k].x, call.candidates[k].y)
             /\ \A m \in 1 .. Len(call.candidates) :
                   /\ rootValue(IF call.name = "hardMinimax" THEN "minimax"
                                ELSE "minimaxHellImproved", m)
                        <= rootValue(IF call.name = "hardMinimax" THEN "minimax"
                                     ELSE "minimaxHellImproved", k)
                   /\ m < k
                        => rootValue(IF call.name = "hardMinimax" THEN "minimax"
                                     ELSE "minimaxHellImproved", m)
                             < rootValue(IF call.name = "hardMinimax" THEN "minimax"
                                         ELSE "minimaxHellImproved", k)

\* the search has broken off a loop: it has visited fewer nodes than the
\* recursion without breaks, and returned its value
C26_Witness ==
  /\ call.name \in {"minimax", "minimaxHellImproved"}
  /\ gameState.aiStats.nodeCount
       < exactNodes(call.name, before, call.depth, call.isMaximizing, getAIPlayer(before))
  /\ call.ret = exactValue(call.name, before, call.depth, call.isMaximizing,
                           getAIPlayer(before))

playedOn == call.name \in {"click", "placePiece", "undo", "getAIMove"}

\* the last handler ran on a game that was over
playedWhenOver == before.gameOver /\ playedOn

\* the last handler made the 225th move and the move made five
lastMoveFive ==
  /\ call.name \in {"placePiece", "getAIMove"}
  /\ Len(before.history) = BOARD_SIZE * BOARD_SIZE - 1
  /\ Len(gameState.history) = BOARD_SIZE * BOARD_SIZE
  /\ fiveThrough(gameState.board, call.move.x, call.move.y, before.currentPlayer)

\* C28: once gameOver is set, by a win or by the 225th move, a click, an undo
\* and a callback of aiMove() leave board, history and currentPlayer as they
\* are and the game over, so only init() ends the game-over state; and a 225th
\* move that makes five is a win, with its winning line, not a draw.
C28_GameOverIsFinal ==
  /\ playedWhenOver =>
       /\ gameState.board = before.board
       /\ gameState.history = before.history
       /\ gameState.currentPlayer = before.currentPlayer
       /\ gameState.gameOver
  /\ (gameState.gameOver /\ ~before.gameOver /\ playedOn) =>
       \/ gameState.winningLine # <<>>
       \/ Len(gameState.history) = BOARD_SIZE * BOARD_SIZE
  /\ lastMoveFive =>
       /\ gameState.gameOver
       /\ Len(gameState.winningLine) >= 5
       /\ \A i \in 1 .. Len(gameState.winningLine) :
            gameState.board[gameState.winningLine[i]] = before.currentPlayer
  /\ (call.name = "restartGame" /\ before.board # <<>>) => ~gameState.gameOver

\* a callback of aiMove() has run on a game that a 225th move making five had
\* ended
C28_Witness ==
  /\ playedWhenOver
  /\ call.name = "getAIMove"
  /\ Len(gameState.history) = BOARD_SIZE * BOARD_SIZE
  /\ gameState.winningLine # <<>>

\* C29: in every reachable state the moves of history are black's and white's
\* in turn, black's first, and while the game is not over it is black's turn
\* exactly when the number of moves in history is even; placePiece, undo of one
\* and of two moves, init and the callbacks of aiMove() keep it so.
C29_HistoryAlternates ==
  /\ \A i \in 1 .. Len(gameState.history) :
       gameState.history[i].player = (IF i % 2 = 1 THEN 1 ELSE 2)
  /\ ~gameState.gameOver => (gameState.currentPlayer = 1 <=> Len(gameState.history) % 2 = 0)

\* undo() has taken back the player's move and the AI's answer
C29_Witness ==
  /\ call.name = "undo"
  /\ before.gameMode = "pve"
  /\ Len(before.history) = 2
  /\ before.history[2].player = 2
  /\ gameState.history = <<>>
  /\ gameState.currentPlayer = 1

\* c is empty and analyzeLinePattern gives FIVE there on one of the axes
fiveOn(board, c, player) ==
  /\ board[c] = 0
  /\ \E k \in 1 .. 4 :
       analyzeLinePattern(board, c[1], c[2], directions[k][1], directions[k][2], player) = FIVE

\* C30: on an empty cell analyzeLinePattern returns FIVE on one of the axes
\* exactly when checkWin is true with the player's stone on the cell, and
\* checkWinWithoutState returns what checkWin does; findImmediateWin(player)
\* returns a cell exactly when an empty cell has an axis of FIVE for player:
\* the cell it returns has one, and when it returns null no empty cell has.
C30_WinNotionsAgree ==
  /\ call.name = "five" =>
       /\ call.five <=> call.win
       /\ call.win <=> call.winWithoutState
  /\ call.name = "findImmediateWin" =>
       IF call.ret # null
         THEN fiveOn(before.board, <<call.ret.x, call.ret.y>>, call.player)
       ELSE \A c \in Cells : ~fiveOn(before.board, c, call.player)

\* a stone on the cell makes a line of six: the three agree that it wins
C30_Witness ==
  /\ call.name = "five"
  /\ call.five /\ call.win /\ call.winWithoutState
  /\ \E k \in 1 .. 4 :
       Len(lineOf([before.board EXCEPT ![<<call.x, call.y>>] = call.player], call.x, call.y,
                  directions[k], call.player)) >= 6
====
